---- MODULE Spec2Model ----
(***************************************************************************)
(* viewproxy: the concurrent multiplexer (Request.Do), the per-request     *)
(* handler of the server, the stitcher, the routes and the fragment        *)
(* definitions, modelled from the Go sources.                              *)
(***************************************************************************)
EXTENDS Integers, Sequences, FiniteSets, TLC

(* ------------------------------ bounds -------------------------------- *)

\* largest number of requestables handed to one Do call
MaxReq == 2

\* the URLs of the requestables, in submission order
URLs == <<"u1", "u2", "u3", "u4">>

\* HTTP statuses the upstream can answer with
Statuses == {200, 500}

(* --------------------------- multiplexer state ------------------------ *)

VARIABLES
    non2xxErrors,   \* Request.Non2xxErrors
    SecretFilter,   \* Request.SecretFilter: the query keys it allows, in lower case
    requestables,   \* Request.requestables
    dpc,            \* position of the goroutine running Do
    launched,       \* number of fetch goroutines started by the loop of Do
    tpc,            \* position of every fetch goroutine
    tout,           \* (result, err) fetchUrl returned to every fetch goroutine
    errCh,          \* the buffered channel errCh
    results,        \* the pre-sized slice results
    wgCount,        \* counter of the sync.WaitGroup
    doneClosed,     \* whether the channel done is closed
    ctx,            \* the context derived by context.WithTimeout
    ret,            \* what Do returned
    fetchCount,     \* number of transport calls made for every requestable
    writes          \* number of writes made to every slot of results

doVars == <<non2xxErrors, SecretFilter, requestables, dpc, launched, tpc, tout, errCh,
            results, wgCount, doneClosed, ctx, ret, fetchCount, writes>>

(* ----------------------------- server state --------------------------- *)

VARIABLES
    inbound,        \* the inbound request: its path is /_ping or not, and the
                    \* number of fragments of the route it matches (0: none)
    PassThrough,    \* Server.PassThrough
    OnError,        \* whether Server.OnError is set
    spc,            \* position of the goroutine serving the request
    lifecycle,      \* the states the request went through
    response,       \* what was written to the http.ResponseWriter
    upstream        \* the answers the target gave to the requests of passThrough

srvVars == <<inbound, PassThrough, OnError, spc, lifecycle, response, upstream>>

(* ---------------------------- stitcher state -------------------------- *)

VARIABLES
    structure,      \* the route's stitch structure
    bodies,         \* Body of the Result fetched for every node
    iterOrder,      \* the order in which the maps of stitch were iterated
    stpc,           \* position of the stitching
    out             \* the bytes stitch returned

stVars == <<structure, bodies, iterOrder, stpc, out>>

(* ------------------------------ route state --------------------------- *)

VARIABLES
    entry,          \* the route entry handed to LoadRoutes: path and root fragment
    mapOrder,       \* the order in which the maps of newRoute were iterated
    routes,         \* Server.routes
    loadErr,        \* the error LoadRoutes returned
    reqParts,       \* the segments of the inbound path
    matched,        \* the route and the parameters matchingRoute returned
    built,          \* the arguments and the outcome of Definition.Requestable
    mapped,         \* the results and the map mapResultsToFragmentKey made of them
    rtpc            \* position of the registration and of the request

rtVars == <<entry, mapOrder, routes, loadErr, reqParts, matched, built, mapped, rtpc>>

(* ----------------------------- notifier state ------------------------- *)

VARIABLES
    aroundSubscriptions, \* DefaultNotifier.aroundSubscriptions
    onSubscriptions,     \* DefaultNotifier.onSubscriptions
    registered,          \* number of handlers subscribed so far
    npc,                 \* position of the goroutine running Emit
    emitted,             \* the name and the context Emit was called with
    callee,              \* the closure that is called next: its subscription
                         \* first, then the closure it captured as last
    stack,               \* the handlers waiting for their callback to return
    callCtx,             \* the context the next call is given
    messages,            \* what the handlers and f did, in the order they did it
    received,            \* the context every handler was called with
    passed,              \* the context every handler gave to its callback
    fctx,                \* the contexts f was called with
    mu,                  \* whether DefaultNotifier.mu is locked
    removing             \* the call of RemoveOn or RemoveAround that holds mu

ntVars == <<aroundSubscriptions, onSubscriptions, registered, npc, emitted, callee,
            stack, callCtx, messages, received, passed, fctx, mu, removing>>

\* a URL: the pieces of its path and the key=value pairs of its query
NoURL == [path |-> <<>>, query |-> <<>>]

NilErr == [type |-> "nil", status |-> 0, inner |-> "nil", req |-> 0, url |-> NoURL]

NilResult == [Url |-> "nil", StatusCode |-> 0, req |-> 0]

NoReturn == [results |-> <<>>, err |-> NilErr]

LiveCtx == [err |-> "nil", cause |-> "none", first |-> FALSE]

NoResponse == [kind |-> "none", status |-> 0, inner |-> "nil"]

N == Len(requestables)

Tasks == 1..N

Is2xx(status) == status >= 200 /\ status <= 299

\* what the transport can answer to a request made under the context c
Responses(c) ==
    [kind : {"http"}, status : Statuses, inner : {"nil"}]
        \cup {[kind |-> "transport", status |-> 0, inner |-> "EOF"]}
        \cup (IF c.err = "nil" THEN {}
              ELSE {[kind |-> "transport", status |-> 0, inner |-> c.err]})

\* Result.Body: the body read from the answer of the target
Body(resp) == IF Is2xx(resp.status) THEN "hello world" ELSE "Something went wrong"

\* Requestable.URL(): the URL that is fetched, path parameters substituted
RequestURL(u) ==
    CASE u = "u1" -> [path |-> <<"/", "wowomg">>, query |-> <<<<"foo", "bar">>>>]
      [] u = "u2" -> [path |-> <<"/", "wowomg">>,
                      query |-> <<<<"fragment", "bad_gateway">>, <<"foo", "bar">>>>]
      [] u = "u3" -> [path |-> <<"/", "users", "/", "42">>,
                      query |-> <<<<"token", "s3cret">>, <<"Fragment", "x">>,
                                  <<"token", "other">>>>]
      [] u = "u4" -> [path |-> <<"/", "wowomg">>, query |-> <<>>]

\* Requestable.TemplateURL(): the URL with its placeholders
TemplateURL(u) ==
    CASE u = "u1" -> [path |-> <<"/", ":name">>, query |-> <<>>]
      [] u = "u2" -> [path |-> <<"/", ":name">>,
                      query |-> <<<<"fragment", "bad_gateway">>, <<"foo", "bar">>>>]
      [] u = "u3" -> [path |-> <<"/", "users", "/", ":id">>, query |-> <<>>]
      [] u = "u4" -> [path |-> <<"/", ":name">>, query |-> <<>>]

\* the keys a filter may have been told to allow with Allow
AllowedKeys == {"fragment"}

\* the query keys, in the byte order url.Values.Encode sorts them in
KeyOrder == <<"Fragment", "foo", "fragment", "token">>

\* strings.ToLower on the keys
ToLower(key) == IF key = "Fragment" THEN "fragment" ELSE key

\* secretFilter.IsAllowed
IsAllowed(l, key) == ToLower(key) \in l

\* secretFilter.FilterQueryParams
FilterQueryParams(l, query) ==
    [i \in DOMAIN query |->
        IF IsAllowed(l, query[i][1]) THEN query[i] ELSE <<query[i][1], "FILTERED">>]

\* url.Values.Encode: the pairs sorted by key, the values of a key in order
RECURSIVE EncodeFrom(_, _)
EncodeFrom(query, k) ==
    IF k > Len(KeyOrder) THEN <<>>
    ELSE SelectSeq(query, LAMBDA kv : kv[1] = KeyOrder[k]) \o EncodeFrom(query, k + 1)

Encode(query) == EncodeFrom(query, 1)

\* secretFilter.FilterURL and FilterURLString; parsing and printing a printed
\* URL again leaves its path as it is
FilterURLString(l, urlString) ==
    [urlString EXCEPT !.query = Encode(FilterQueryParams(l, urlString.query))]

\* secretFilter.FilterURLStringThrough: the query of source is copied to target
FilterURLStringThrough(l, source, target) ==
    FilterURLString(l, [target EXCEPT !.query = source.query])

\* secretFilter.FilterURLError
FilterURLError(l, errURL, err) ==
    [err EXCEPT !.url = FilterURLStringThrough(l, err.url, errURL)]

\* newResultError(requestable.TemplateURL(), r, result) for requestable i:
\* msg is "status: %d url: %s" of the status and the filtered template URL
newResultError(i, status) ==
    [type |-> "ResultError", status |-> status, inner |-> "nil", req |-> i,
     url |-> FilterURLStringThrough(SecretFilter, RequestURL(requestables[i]),
                                    TemplateURL(requestables[i]))]

newTimeoutError(inner) ==
    [type |-> "TimeoutError", status |-> 0, inner |-> inner, req |-> 0, url |-> NoURL]

newCancellationError(inner) ==
    [type |-> "ErrRequestCanceled", status |-> 0, inner |-> inner, req |-> 0, url |-> NoURL]

\* fetchUrl as it would be if it treated every non-2xx answer as an error
fetchUrlStrict(non2xx, i, url, resp) ==
    IF resp.kind = "transport"
    THEN [result |-> NilResult, resp |-> resp,
          err |-> [type |-> "url.Error", status |-> 0, inner |-> resp.inner, req |-> i,
                   url |-> RequestURL(url)]]
    ELSE IF ~Is2xx(resp.status)
    THEN [result |-> NilResult, resp |-> resp, err |-> newResultError(i, resp.status)]
    ELSE [result |-> [Url |-> url, StatusCode |-> resp.status, req |-> i],
          resp |-> resp, err |-> NilErr]

\* Request.fetchUrl for requestable i, given the transport's answer
fetchUrl(non2xx, i, url, resp) ==
    IF resp.kind = "transport"
    THEN [result |-> NilResult, resp |-> resp,
          err |-> [type |-> "url.Error", status |-> 0, inner |-> resp.inner, req |-> i,
                   url |-> RequestURL(url)]]
    ELSE IF non2xx /\ ~Is2xx(resp.status)
    THEN [result |-> NilResult, resp |-> resp, err |-> newResultError(i, resp.status)]
    ELSE [result |-> [Url |-> url, StatusCode |-> resp.status, req |-> i],
          resp |-> resp, err |-> NilErr]

\* filterError as it would be if it returned every error as it is
filterErrorUnfiltered(errURL, err) == err

\* Request.filterError: a *url.Error is returned with its URL filtered
filterError(errURL, err) ==
    IF err.type = "url.Error" THEN FilterURLError(SecretFilter, errURL, err) ELSE err

\* context.CancelFunc and the other ways a context becomes done: the first
\* cause sets Err() for good
Done(c, err, cause, first) ==
    IF c.err = "nil" THEN [err |-> err, cause |-> cause, first |-> first] ELSE c

\* no failure has been signalled and not every fetch goroutine has finished
FirstEvent == errCh = <<>> /\ (dpc = "start" \/ wgCount > 0)

\* the slot a goroutine would write if results were appended as they complete
ResultSlotByCompletion(i, res) ==
    IF \E s \in DOMAIN res : res[s] = NilResult
    THEN CHOOSE s \in DOMAIN res :
             res[s] = NilResult /\ \A t \in DOMAIN res : res[t] = NilResult => s <= t
    ELSE i

\* the slot a goroutine would write if all goroutines shared the loop variable
ResultSlotShared(i, res) == N

\* the slot of results the goroutine of requestable i writes
ResultSlot(i, res) == i

(* --------------------------- fetch goroutines ------------------------- *)

\* r.fetchUrl(ctx, "GET", requestable, headersForRequest, nil)
TaskFetch(i) ==
    /\ tpc[i] = "fetch"
    /\ \E resp \in Responses(ctx) :
         LET fetched == fetchUrl(non2xxErrors, i, requestables[i], resp) IN
         /\ tout' = [tout EXCEPT ![i] = fetched]
         /\ tpc' = [tpc EXCEPT ![i] = IF fetched.err = NilErr THEN "store" ELSE "send"]
    /\ fetchCount' = [fetchCount EXCEPT ![i] = @ + 1]
    /\ UNCHANGED <<srvVars, stVars, rtVars, ntVars>>
    /\ UNCHANGED <<non2xxErrors, SecretFilter, requestables, dpc, launched, errCh, results,
                   wgCount, doneClosed, ctx, ret, writes>>

\* TaskSendErr as it would be if a failed fetch were tried again
TaskSendErrRetry(i) ==
    /\ tpc[i] = "send"
    /\ Len(errCh) < N
    /\ errCh' = Append(errCh, filterError(TemplateURL(requestables[i]), tout[i].err))
    /\ tpc' = [tpc EXCEPT ![i] = "fetch"]
    /\ UNCHANGED <<srvVars, stVars, rtVars, ntVars>>
    /\ UNCHANGED <<non2xxErrors, SecretFilter, requestables, dpc, launched, tout, results,
                   wgCount, doneClosed, ctx, ret, fetchCount, writes>>

\* TaskSendErr as it would be on an unbuffered channel: the send completes
\* only while Do is receiving
TaskSendErrUnbuffered(i) ==
    /\ tpc[i] = "send"
    /\ dpc = "select"
    /\ errCh = <<>>
    /\ errCh' = Append(errCh, filterError(TemplateURL(requestables[i]), tout[i].err))
    /\ tpc' = [tpc EXCEPT ![i] = "store"]
    /\ UNCHANGED <<srvVars, stVars, rtVars, ntVars>>
    /\ UNCHANGED <<non2xxErrors, SecretFilter, requestables, dpc, launched, tout, results,
                   wgCount, doneClosed, ctx, ret, fetchCount, writes>>


\* errCh <- r.filterError(requestable.TemplateURL(), err)
TaskSendErr(i) ==
    /\ tpc[i] = "send"
    /\ Len(errCh) < N
    /\ errCh' = Append(errCh, filterError(TemplateURL(requestables[i]), tout[i].err))
    /\ tpc' = [tpc EXCEPT ![i] = "store"]
    /\ UNCHANGED <<srvVars, stVars, rtVars, ntVars>>
    /\ UNCHANGED <<non2xxErrors, SecretFilter, requestables, dpc, launched, tout, results,
                   wgCount, doneClosed, ctx, ret, fetchCount, writes>>

\* results[i] = result
TaskStore(i) ==
    /\ tpc[i] = "store"
    /\ LET slot == ResultSlot(i, results) IN
         /\ results' = [results EXCEPT ![slot] = tout[i].result]
         /\ writes' = [writes EXCEPT ![slot] = @ + 1]
    /\ tpc' = [tpc EXCEPT ![i] = "wgdone"]
    /\ UNCHANGED <<srvVars, stVars, rtVars, ntVars>>
    /\ UNCHANGED <<non2xxErrors, SecretFilter, requestables, dpc, launched, tout, errCh,
                   wgCount, doneClosed, ctx, ret, fetchCount>>

\* defer wg.Done()
TaskDone(i) ==
    /\ tpc[i] = "wgdone"
    /\ wgCount' = wgCount - 1
    /\ tpc' = [tpc EXCEPT ![i] = "exit"]
    /\ UNCHANGED <<srvVars, stVars, rtVars, ntVars>>
    /\ UNCHANGED <<non2xxErrors, SecretFilter, requestables, dpc, launched, tout, errCh,
                   results, doneClosed, ctx, ret, fetchCount, writes>>

(* ------------------------------ Request.Do ---------------------------- *)

\* context.WithTimeout, wg.Add(reqCount), make(chan error, reqCount),
\* make([]*Result, reqCount)
DoEnter ==
    /\ dpc = "start"
    /\ dpc' = "launch"
    /\ launched' = 0
    /\ wgCount' = N
    /\ errCh' = <<>>
    /\ results' = [i \in Tasks |-> NilResult]
    /\ doneClosed' = FALSE
    /\ UNCHANGED <<srvVars, stVars, rtVars, ntVars>>
    /\ UNCHANGED <<non2xxErrors, SecretFilter, requestables, tpc, tout, ctx, ret,
                   fetchCount, writes>>

\* one iteration of the loop: go func(...)(reqCtx, f, i, &wg)
DoLaunch ==
    /\ dpc = "launch"
    /\ launched < N
    /\ launched' = launched + 1
    /\ tpc' = [tpc EXCEPT ![launched + 1] = "fetch"]
    /\ UNCHANGED <<srvVars, stVars, rtVars, ntVars>>
    /\ UNCHANGED <<non2xxErrors, SecretFilter, requestables, dpc, tout, errCh, results,
                   wgCount, doneClosed, ctx, ret, fetchCount, writes>>

\* the loop is over: the goroutine waiting on wg is started and Do reaches
\* its select
DoWait ==
    /\ dpc = "launch"
    /\ launched = N
    /\ dpc' = "select"
    /\ UNCHANGED <<srvVars, stVars, rtVars, ntVars>>
    /\ UNCHANGED <<non2xxErrors, SecretFilter, requestables, launched, tpc, tout, errCh,
                   results, wgCount, doneClosed, ctx, ret, fetchCount, writes>>

\* go func() { defer close(done); wg.Wait() }
CloseDone ==
    /\ dpc \in {"select", "returned"}
    /\ wgCount = 0
    /\ ~doneClosed
    /\ doneClosed' = TRUE
    /\ UNCHANGED <<srvVars, stVars, rtVars, ntVars>>
    /\ UNCHANGED <<non2xxErrors, SecretFilter, requestables, dpc, launched, tpc, tout, errCh,
                   results, wgCount, ctx, ret, fetchCount, writes>>

\* DoSelectErr as it would be without cancel()
DoSelectErrNoCancel ==
    /\ dpc = "select"
    /\ errCh # <<>>
    /\ ret' = [results |-> <<>>, err |-> Head(errCh)]
    /\ errCh' = Tail(errCh)
    /\ dpc' = "returned"
    /\ UNCHANGED <<srvVars, stVars, rtVars, ntVars>>
    /\ UNCHANGED <<non2xxErrors, SecretFilter, requestables, launched, tpc, tout, results,
                   wgCount, doneClosed, ctx, fetchCount, writes>>

\* DoSelectErr as it would be if the error were read only after wg.Wait()
DoSelectErrAfterWait ==
    /\ dpc = "select"
    /\ errCh # <<>>
    /\ doneClosed
    /\ ret' = [results |-> <<>>, err |-> Head(errCh)]
    /\ errCh' = Tail(errCh)
    /\ ctx' = Done(ctx, "Canceled", "cancel", FALSE)
    /\ dpc' = "returned"
    /\ UNCHANGED <<srvVars, stVars, rtVars, ntVars>>
    /\ UNCHANGED <<non2xxErrors, SecretFilter, requestables, launched, tpc, tout, results,
                   wgCount, doneClosed, fetchCount, writes>>

\* case err := <-errCh: cancel(); return make([]*Result, 0), err
DoSelectErr ==
    /\ dpc = "select"
    /\ errCh # <<>>
    /\ ret' = [results |-> <<>>, err |-> Head(errCh)]
    /\ errCh' = Tail(errCh)
    /\ ctx' = Done(ctx, "Canceled", "cancel", FALSE)
    /\ dpc' = "returned"
    /\ UNCHANGED <<srvVars, stVars, rtVars, ntVars>>
    /\ UNCHANGED <<non2xxErrors, SecretFilter, requestables, launched, tpc, tout, results,
                   wgCount, doneClosed, fetchCount, writes>>

\* case <-done: return results, nil (and the deferred cancel)
DoSelectDone ==
    /\ dpc = "select"
    /\ doneClosed
    /\ ret' = [results |-> results, err |-> NilErr]
    /\ ctx' = Done(ctx, "Canceled", "cancel", FALSE)
    /\ dpc' = "returned"
    /\ UNCHANGED <<srvVars, stVars, rtVars, ntVars>>
    /\ UNCHANGED <<non2xxErrors, SecretFilter, requestables, launched, tpc, tout, errCh,
                   results, wgCount, doneClosed, fetchCount, writes>>

\* case <-ctx.Done(): the switch on ctx.Err()
DoSelectCtx ==
    /\ dpc = "select"
    /\ ctx.err # "nil"
    /\ ret' = [results |-> <<>>,
               err |-> IF ctx.err = "Canceled"
                       THEN newCancellationError(ctx.err)
                       ELSE newTimeoutError(ctx.err)]
    /\ dpc' = "returned"
    /\ UNCHANGED <<srvVars, stVars, rtVars, ntVars>>
    /\ UNCHANGED <<non2xxErrors, SecretFilter, requestables, launched, tpc, tout, errCh,
                   results, wgCount, doneClosed, ctx, fetchCount, writes>>

\* the timer of context.WithTimeout(ctx, r.Timeout) fires
DeadlineFire ==
    /\ dpc \in {"launch", "select"}
    /\ ctx.err = "nil"
    /\ ctx' = Done(ctx, "DeadlineExceeded", "deadline", FirstEvent)
    /\ UNCHANGED <<srvVars, stVars, rtVars, ntVars>>
    /\ UNCHANGED <<non2xxErrors, SecretFilter, requestables, dpc, launched, tpc, tout, errCh,
                   results, wgCount, doneClosed, ret, fetchCount, writes>>

\* the caller cancels the context it passed to Do, possibly before the call
ExternalCancel ==
    /\ dpc \in {"start", "launch", "select"}
    /\ ctx.err = "nil"
    /\ ctx' = Done(ctx, "Canceled", "external", FirstEvent)
    /\ UNCHANGED <<srvVars, stVars, rtVars, ntVars>>
    /\ UNCHANGED <<non2xxErrors, SecretFilter, requestables, dpc, launched, tpc, tout, errCh,
                   results, wgCount, doneClosed, ret, fetchCount, writes>>

(* ------- Request.Do reporting errors over an unbuffered channel ------- *)

\* errCh <- err of goroutine i meeting case err := <-errCh of the select:
\* on an unbuffered channel the send completes when Do receives, and Do
\* cancels and returns the error
DoSelectErrUnbuffered ==
    /\ dpc = "select"
    /\ \E i \in Tasks :
         /\ tpc[i] = "send"
         /\ ret' = [results |-> <<>>, err |-> tout[i].err]
         /\ tpc' = [tpc EXCEPT ![i] = "store"]
    /\ ctx' = Done(ctx, "Canceled", "cancel", FALSE)
    /\ dpc' = "returned"
    /\ UNCHANGED <<srvVars, stVars, rtVars, ntVars>>
    /\ UNCHANGED <<non2xxErrors, SecretFilter, requestables, launched, tout, errCh, results,
                   wgCount, doneClosed, fetchCount, writes>>

\* case <-ctx.Done(): return make([]*Result, 0), ctx.Err()
DoSelectCtxErr ==
    /\ dpc = "select"
    /\ ctx.err # "nil"
    /\ ret' = [results |-> <<>>, err |-> [NilErr EXCEPT !.type = ctx.err]]
    /\ dpc' = "returned"
    /\ UNCHANGED <<srvVars, stVars, rtVars, ntVars>>
    /\ UNCHANGED <<non2xxErrors, SecretFilter, requestables, launched, tpc, tout, errCh,
                   results, wgCount, doneClosed, ctx, fetchCount, writes>>


Fetch == \E i \in Tasks : TaskFetch(i)

SendErr == \E i \in Tasks : TaskSendErr(i)

Store == \E i \in Tasks : TaskStore(i)

WgDone == \E i \in Tasks : TaskDone(i)

Orchestrator == DoEnter \/ DoLaunch \/ DoWait \/ DoSelectErr \/ DoSelectDone \/ DoSelectCtx

(* -------------------------------- server ------------------------------ *)

NoWrite == [status |-> 0, body |-> "none"]

\* the multiplexer state of a request built by multiplexer.NewRequest and
\* given n requestables, before Do is called
NewRequest(n, non2xx) ==
    /\ non2xxErrors' = non2xx
    /\ SecretFilter' = {}
    /\ requestables' = SubSeq(URLs, 1, n)
    /\ dpc' = "start"
    /\ launched' = 0
    /\ tpc' = [i \in 1..n |-> "idle"]
    /\ tout' = [i \in 1..n |-> [result |-> NilResult, resp |-> NoResponse, err |-> NilErr]]
    /\ errCh' = <<>>
    /\ results' = [i \in 1..n |-> NilResult]
    /\ wgCount' = 0
    /\ doneClosed' = FALSE
    /\ ctx' = LiveCtx
    /\ ret' = NoReturn
    /\ fetchCount' = [i \in 1..n |-> 0]
    /\ writes' = [i \in 1..n |-> 0]

\* Server.rootHandler: /_ping is answered at once, any other request goes on
\* to the request handler with the route it matches, if any
rootHandler ==
    /\ spc = "rootHandler"
    /\ IF inbound.ping
       THEN /\ response' = [status |-> 200, body |-> "200 ok"]
            /\ lifecycle' = <<"Ping", "Written">>
            /\ spc' = "done"
       ELSE /\ response' = response
            /\ lifecycle' = <<IF inbound.fragments > 0 THEN "Matched" ELSE "Unmatched">>
            /\ spc' = "requestHandler"
    /\ UNCHANGED <<inbound, PassThrough, OnError, upstream>>
    /\ UNCHANGED <<doVars, stVars, rtVars, ntVars>>

\* Server.handleRequest up to its call of req.Do: one fragment request for
\* every element of route.FragmentsToRequest()
handleRequest ==
    /\ spc = "requestHandler"
    /\ inbound.fragments > 0
    /\ NewRequest(inbound.fragments, TRUE)
    /\ lifecycle' = Append(lifecycle, "Fetching")
    /\ spc' = "Do"
    /\ UNCHANGED <<inbound, PassThrough, OnError, upstream, response>>
    /\ UNCHANGED <<stVars, rtVars, ntVars>>

\* Server.handleRequest, err != nil: s.OnError, or the 500 answer
handleRequestError ==
    /\ spc = "Do"
    /\ dpc = "returned"
    /\ ret.err # NilErr
    /\ response' = IF OnError THEN [status |-> 0, body |-> "OnError"]
                   ELSE [status |-> 500, body |-> "500 internal server error"]
    /\ lifecycle' = lifecycle \o <<"Failed", "ErrorHandled">>
    /\ spc' = "done"
    /\ UNCHANGED <<inbound, PassThrough, OnError, upstream>>
    /\ UNCHANGED <<doVars, stVars, rtVars, ntVars>>

\* Server.handleRequest, err == nil with a nil *Result in results:
\* results[0].Url and result.Url dereference it and the handler panics
handleRequestPanic ==
    /\ spc = "Do"
    /\ dpc = "returned"
    /\ ret.err = NilErr
    /\ \E i \in DOMAIN ret.results : ret.results[i] = NilResult
    /\ lifecycle' = Append(lifecycle, "Succeeded")
    /\ spc' = "panic"
    /\ UNCHANGED <<inbound, PassThrough, OnError, upstream, response>>
    /\ UNCHANGED <<doVars, stVars, rtVars, ntVars>>

\* Server.handleRequest, err == nil: the response is built from the results
\* and written
handleRequestWrite ==
    /\ spc = "Do"
    /\ dpc = "returned"
    /\ ret.err = NilErr
    /\ \A i \in DOMAIN ret.results : ret.results[i] # NilResult
    /\ response' = [status |-> 200, body |-> "stitched"]
    /\ lifecycle' = lifecycle \o <<"Succeeded", "Stitching", "Written">>
    /\ spc' = "done"
    /\ UNCHANGED <<inbound, PassThrough, OnError, upstream>>
    /\ UNCHANGED <<doVars, stVars, rtVars, ntVars>>

\* Server.passThrough as it would be if it forwarded whatever s.PassThrough is
passThroughAlways ==
    /\ spc = "requestHandler"
    /\ inbound.fragments = 0
    /\ \E resp \in Responses(ctx) :
         LET single == fetchUrl(FALSE, 1, URLs[1], resp) IN
         /\ response' = IF single.err # NilErr
                        THEN [status |-> 500, body |-> "Internal Server Error"]
                        ELSE [status |-> single.result.StatusCode, body |-> Body(resp)]
         /\ upstream' = Append(upstream, resp)
    /\ lifecycle' = lifecycle \o <<"Passthrough", "Written">>
    /\ spc' = "done"
    /\ UNCHANGED <<inbound, PassThrough, OnError>>
    /\ UNCHANGED <<doVars, stVars, rtVars, ntVars>>

\* Server.passThrough as it would be if it left Non2xxErrors set on the request
passThroughNon2xxErrors ==
    /\ spc = "requestHandler"
    /\ inbound.fragments = 0
    /\ IF PassThrough
       THEN \E resp \in Responses(ctx) :
                /\ response' = IF resp.kind = "transport" \/ ~Is2xx(resp.status)
                               THEN [status |-> 500, body |-> "Internal Server Error"]
                               ELSE [status |-> resp.status, body |-> Body(resp)]
                /\ upstream' = Append(upstream, resp)
       ELSE /\ response' = [status |-> 404, body |-> "404 not found"]
            /\ upstream' = upstream
    /\ lifecycle' = lifecycle \o <<"Passthrough", "Written">>
    /\ spc' = "done"
    /\ UNCHANGED <<inbound, PassThrough, OnError>>
    /\ UNCHANGED <<doVars, stVars, rtVars, ntVars>>

\* Server.passThrough: DoSingle with Non2xxErrors unset, or the 404 answer
passThrough ==
    /\ spc = "requestHandler"
    /\ inbound.fragments = 0
    /\ IF PassThrough
       THEN \E resp \in Responses(ctx) :
                LET single == fetchUrl(FALSE, 1, URLs[1], resp) IN
                /\ response' = IF single.err # NilErr
                               THEN [status |-> 500, body |-> "Internal Server Error"]
                               ELSE [status |-> single.result.StatusCode, body |-> Body(resp)]
                /\ upstream' = Append(upstream, resp)
       ELSE /\ response' = [status |-> 404, body |-> "404 not found"]
            /\ upstream' = upstream
    /\ lifecycle' = lifecycle \o <<"Passthrough", "Written">>
    /\ spc' = "done"
    /\ UNCHANGED <<inbound, PassThrough, OnError>>
    /\ UNCHANGED <<doVars, stVars, rtVars, ntVars>>

IdleDo ==
    /\ non2xxErrors = TRUE
    /\ SecretFilter = {}
    /\ requestables = <<>>
    /\ dpc = "idle"
    /\ launched = 0
    /\ tpc = <<>>
    /\ tout = <<>>
    /\ errCh = <<>>
    /\ results = <<>>
    /\ wgCount = 0
    /\ doneClosed = FALSE
    /\ ctx = LiveCtx
    /\ ret = NoReturn
    /\ fetchCount = <<>>
    /\ writes = <<>>

IdleServer ==
    /\ inbound = [ping |-> FALSE, fragments |-> 0]
    /\ PassThrough = FALSE
    /\ OnError = FALSE
    /\ spc = "none"
    /\ lifecycle = <<>>
    /\ response = NoWrite
    /\ upstream = <<>>

IdleStitch ==
    /\ structure = <<>>
    /\ bodies = <<>>
    /\ iterOrder = <<>>
    /\ stpc = "none"
    /\ out = <<>>

\* make(map[string]string)
EmptyMap == [k \in {} |-> <<>>]

NoRequest == [RequestURL |-> <<>>, Definition |-> <<>>, templateURL |-> <<>>]

NotBuilt == [d |-> <<>>, target |-> <<>>, pathParams |-> EmptyMap, query |-> <<>>,
             request |-> NoRequest, err |-> NilErr]

NoEntry == [path |-> <<>>, root |-> <<>>]

NoMatch == [route |-> 0, parameters |-> EmptyMap]

NotMapped == [results |-> <<>>, resultMap |-> EmptyMap]

IdleRoute ==
    /\ entry = NoEntry
    /\ mapOrder = <<>>
    /\ routes = <<>>
    /\ loadErr = NilErr
    /\ reqParts = <<>>
    /\ matched = NoMatch
    /\ built = NotBuilt
    /\ mapped = NotMapped
    /\ rtpc = "none"

NoEmit == [name |-> "none", ctx |-> {}, at |-> 0]

NoCall == [op |-> "none"]

IdleNotifier ==
    /\ aroundSubscriptions = [name \in {} |-> <<>>]
    /\ onSubscriptions = [name \in {} |-> <<>>]
    /\ registered = 0
    /\ npc = "none"
    /\ emitted = NoEmit
    /\ callee = <<>>
    /\ stack = <<>>
    /\ callCtx = {}
    /\ messages = <<>>
    /\ received = [h \in {} |-> {}]
    /\ passed = [h \in {} |-> {}]
    /\ fctx = <<>>
    /\ mu = FALSE
    /\ removing = NoCall


InitServer ==
    /\ inbound \in [ping : BOOLEAN, fragments : 0..MaxReq]
    /\ PassThrough \in BOOLEAN
    /\ OnError \in BOOLEAN
    /\ spc = "rootHandler"
    /\ lifecycle = <<>>
    /\ response = NoWrite
    /\ upstream = <<>>
    /\ IdleDo
    /\ IdleStitch
    /\ IdleRoute
    /\ IdleNotifier

NextServer ==
    \/ rootHandler
    \/ handleRequest
    \/ handleRequestError
    \/ handleRequestPanic
    \/ handleRequestWrite
    \/ passThrough
    \/ DoEnter
    \/ DoLaunch
    \/ DoWait
    \/ Fetch
    \/ SendErr
    \/ Store
    \/ WgDone
    \/ CloseDone
    \/ DoSelectErr
    \/ DoSelectDone
    \/ DoSelectCtx
    \/ DeadlineFire
    \/ ExternalCancel


(* ------------------------------- stitcher ----------------------------- *)

\* fragment definition trees: node 1 is the root, every other node is the
\* child of its parent under the slot called name; a name is the sequence of
\* its pieces, the separator "." being a piece of its own
Definitions ==
    { [parent |-> <<0>>, name |-> <<<<>>>>],
      [parent |-> <<0, 1>>, name |-> <<<<>>, <<"body">>>>],
      [parent |-> <<0, 1, 2>>, name |-> <<<<>>, <<"body">>, <<"inner">>>>],
      [parent |-> <<0, 1, 1>>, name |-> <<<<>>, <<"header">>, <<"body">>>>] }

\* childStitchStructure: key := prefix + "." + name
RECURSIVE structureKey(_, _)
structureKey(d, n) ==
    IF d.parent[n] = 0 THEN <<"root">>
    ELSE structureKey(d, d.parent[n]) \o <<".">> \o d.name[n]

\* stitchStructureFor
stitchStructureFor(d) ==
    [n \in DOMAIN d.parent |->
        [key |-> structureKey(d, n), replacementID |-> d.name[n], parent |-> d.parent[n]]]

DependentStructures(st, n) == {m \in DOMAIN st : st[m].parent = n}

\* the text `<viewproxy-fragment id="NAME"`, one token for every slot name
OpenTag(name) ==
    CASE name = <<"body">> -> "<viewproxy-fragment id=\"body\""
      [] name = <<"inner">> -> "<viewproxy-fragment id=\"inner\""
      [] name = <<"header">> -> "<viewproxy-fragment id=\"header\""

\* fmt.Sprintf("<viewproxy-fragment id=\"%s\"/>", replacementKey)
directive(name) == <<OpenTag(name), "/>">>

\* the marker <viewproxy-fragment id="NAME"></viewproxy-fragment>
PairedMarker(name) == <<OpenTag(name), "></viewproxy-fragment>">>

\* bytes.Index
Index(s, old) ==
    LET hits == {i \in 1..(Len(s) - Len(old) + 1) : SubSeq(s, i, i + Len(old) - 1) = old}
    IN IF hits = {} THEN 0 ELSE CHOOSE i \in hits : \A j \in hits : i <= j

\* bytes.ReplaceAll(s, old, new), what Replace would be with n = -1
RECURSIVE ReplaceAll(_, _, _)
ReplaceAll(s, old, new) ==
    LET i == Index(s, old)
    IN IF i = 0 THEN s
       ELSE SubSeq(s, 1, i - 1) \o new
                \o ReplaceAll(SubSeq(s, i + Len(old), Len(s)), old, new)


\* bytes.Replace(s, old, new, 1)
Replace(s, old, new) ==
    LET i == Index(s, old)
    IN IF i = 0 THEN s
       ELSE SubSeq(s, 1, i - 1) \o new \o SubSeq(s, i + Len(old), Len(s))

\* the bodies upstreams answer with
Bodies ==
    { <<>>,
      <<"X">>,
      <<"<html>">> \o PairedMarker(<<"body">>) \o <<"</html>">>,
      <<"<html>">> \o directive(<<"body">>) \o <<"</html>">>,
      PairedMarker(<<"inner">>),
      directive(<<"inner">>),
      <<"<html>">> \o directive(<<"header">>) \o directive(<<"body">>) \o <<"</html>">>,
      directive(<<"body">>) \o <<"X">> \o directive(<<"body">>),
      directive(<<"body">>) }

\* the map from tree-path key to fetched body that stitch reads
resultMap(st, bs) ==
    [k \in {st[n].key : n \in DOMAIN st} |->
        bs[CHOOSE n \in DOMAIN st : st[n].key = k]]

IterationOrders(S) ==
    {p \in [1..Cardinality(S) -> S] : \A i, j \in DOMAIN p : p[i] = p[j] => i = j}

\* the nodes of kids in the order ord visits them
Ordered(kids, ord) == SelectSeq(ord, LAMBDA m : m \in kids)

\* the loop of stitch over childContent
RECURSIVE substitute(_, _, _, _)
substitute(st, self, kids, childContent) ==
    IF kids = <<>> THEN self
    ELSE substitute(st,
                    Replace(self, directive(st[Head(kids)].replacementID),
                            childContent[Head(kids)]),
                    Tail(kids), childContent)

\* stitch(structure, results), its map being iterated in the order ord
RECURSIVE stitch(_, _, _, _)
stitch(st, res, ord, n) ==
    LET kids == DependentStructures(st, n)
        childContent == [m \in kids |-> stitch(st, res, ord, m)]
        self == res[st[n].key]
    IN IF kids = {} THEN self
       ELSE substitute(st, self, Ordered(kids, ord), childContent)

\* responseBuilder.SetFragments: rb.body = stitch(route.structure, resultMap)
SetFragments ==
    /\ stpc = "fetched"
    /\ \E ord \in IterationOrders(DOMAIN structure) :
         /\ iterOrder' = ord
         /\ out' = stitch(structure, resultMap(structure, bodies), ord, 1)
    /\ stpc' = "stitched"
    /\ UNCHANGED <<structure, bodies>>
    /\ UNCHANGED <<doVars, srvVars, rtVars, ntVars>>

InitStitch ==
    /\ \E d \in Definitions :
         /\ structure = stitchStructureFor(d)
         /\ bodies \in [DOMAIN d.parent -> Bodies]
    /\ iterOrder = <<>>
    /\ stpc = "fetched"
    /\ out = <<>>
    /\ IdleDo
    /\ IdleServer
    /\ IdleRoute
    /\ IdleNotifier

NextStitch == SetFragments

(* -------------------------------- routes ------------------------------ *)

\* largest number of segments of a route path
MaxParts == 2

\* the byte value of a piece of a string
Byte(c) ==
    CASE c = "%2f" -> 37
      [] c = "." -> 46
      [] c = "/" -> 47
      [] c = ":" -> 58
      [] c = "a" -> 97
      [] c = "b" -> 98
      [] c = "root" -> 114
      [] c = "x" -> 120
      [] c = "|" -> 124

\* s < t for two strings, as sort.Strings compares them
RECURSIVE Less(_, _)
Less(s, t) ==
    IF t = <<>> THEN FALSE
    ELSE IF s = <<>> THEN TRUE
    ELSE IF Byte(Head(s)) # Byte(Head(t)) THEN Byte(Head(s)) < Byte(Head(t))
    ELSE Less(Tail(s), Tail(t))

\* sort.Strings
RECURSIVE SortStrings(_)
SortStrings(l) ==
    IF l = <<>> THEN <<>>
    ELSE LET rest == SortStrings(Tail(l))
             before == SelectSeq(rest, LAMBDA e : ~Less(Head(l), e))
             after == SelectSeq(rest, LAMBDA e : Less(Head(l), e))
         IN before \o <<Head(l)>> \o after

\* strings.HasPrefix(part, ":")
HasPrefix(part) == part # <<>> /\ Head(part) = ":"

\* the segments a path is written with
Segments == {<<"a">>, <<":", "a">>, <<":", "b">>}

\* the route paths: "/" followed by segments joined with "/"
RoutePaths == UNION {[1..n -> Segments] : n \in 1..MaxParts}

\* the fragment paths
FragmentPaths == {<<<<"x">>>>, <<<<"x">>, <<":", "a">>>>, <<<<":", "a">>, <<":", "b">>>>}

\* strings.Split(path, "/") of a path with a leading "/"
Split(path) == <<<<>>>> \o path

\* the dynamic parts of a list of parts, in the order of the path
DynamicPartsOf(parts) == SelectSeq(parts, HasPrefix)

\* fragment.Define with or without the option WithoutValidation
Define(path, ignore) ==
    [Path |-> path,
     routeParts |-> path,
     dynamicParts |-> DynamicPartsOf(path),
     IgnoreValidation |-> ignore]

\* the shapes of the fragment trees of a route, the children of a node being
\* kept under their slot names
Shapes ==
    { [parent |-> <<0>>, name |-> <<<<>>>>],
      [parent |-> <<0, 1>>, name |-> <<<<>>, <<"a">>>>],
      [parent |-> <<0, 1, 1>>, name |-> <<<<>>, <<"b">>, <<"a">>>>],
      [parent |-> <<0, 1, 1, 3>>,
       name |-> <<<<>>, <<"a", ".", "b">>, <<"a">>, <<"b">>>>] }

\* the fragment trees: fragment.Define with WithChild
RootFragments ==
    UNION { { [parent |-> sh.parent, name |-> sh.name,
               def |-> [n \in DOMAIN sh.parent |-> Define(paths[n], ignores[n])]] :
              paths \in [DOMAIN sh.parent -> FragmentPaths],
              ignores \in [DOMAIN sh.parent -> BOOLEAN] } : sh \in Shapes }

\* the fragment definitions Requestable is called on
FragmentDefinitions == {Define(path, ignore) : path \in FragmentPaths, ignore \in BOOLEAN}

\* the orders in which the maps of children are iterated: no node has more
\* than two children, so that the two directions cover every order
MapOrders(t) ==
    LET n == Len(t.parent) IN {[i \in 1..n |-> i], [i \in 1..n |-> n + 1 - i]}

\* Definition.Children of node n
Children(t, n) == {m \in DOMAIN t.parent : t.parent[m] = n}

\* mapChildFragment: the writes mapping[key] = f it makes, in the order it
\* makes them, the maps of children being iterated in the order ord
RECURSIVE mapChildFragment(_, _, _, _), mapChildren(_, _, _, _)
mapChildFragment(t, ord, prefix, n) ==
    LET key == prefix \o <<".">> \o t.name[n]
    IN <<[key |-> key, node |-> n]>>
           \o mapChildren(t, ord, key, Ordered(Children(t, n), ord))

mapChildren(t, ord, prefix, kids) ==
    IF kids = <<>> THEN <<>>
    ELSE mapChildFragment(t, ord, prefix, Head(kids))
             \o mapChildren(t, ord, prefix, Tail(kids))

\* fragmentMapping: a later write to a key replaces the earlier one
fragmentMapping(t, ord) ==
    LET puts == <<[key |-> <<"root">>, node |-> 1]>>
                      \o mapChildren(t, ord, <<"root">>, Ordered(Children(t, 1), ord))
        last(k) == CHOOSE i \in DOMAIN puts :
                       /\ puts[i].key = k
                       /\ \A j \in DOMAIN puts : puts[j].key = k => j <= i
    IN [k \in {puts[i].key : i \in DOMAIN puts} |-> puts[last(k)].node]

\* the keys of a map, in some order
RECURSIVE KeysOf(_)
KeysOf(S) ==
    IF S = {} THEN <<>>
    ELSE LET k == CHOOSE k \in S : TRUE IN <<k>> \o KeysOf(S \ {k})

\* Route.memoizeFragments
memoizeFragments(t, ord) ==
    LET mapping == fragmentMapping(t, ord)
        keys == SortStrings(KeysOf(DOMAIN mapping))
    IN [fragmentOrder |-> keys,
        fragmentsToRequest |-> [i \in DOMAIN keys |-> mapping[keys[i]]]]

\* newRoute
newRoute(path, root, ord) ==
    LET memo == memoizeFragments(root, ord)
    IN [Path |-> path,
        Parts |-> Split(path),
        dynamicParts |-> DynamicPartsOf(Split(path)),
        RootFragment |-> root,
        structure |-> stitchStructureFor(root),
        fragmentsToRequest |-> memo.fragmentsToRequest,
        fragmentOrder |-> memo.fragmentOrder]

RouteValidationError(r, n) ==
    [type |-> "RouteValidationError", Route |-> r.Path,
     Fragment |-> r.RootFragment.def[n].Path]

\* Route.Validate from the i-th fragment to request on: the error it returns
\* and the route as compareStringSlice, which sorts its arguments in place,
\* leaves it
RECURSIVE ValidateFrom(_, _)
ValidateFrom(r, i) ==
    IF i > Len(r.fragmentsToRequest) THEN [err |-> NilErr, route |-> r]
    ELSE LET n == r.fragmentsToRequest[i]
             d == r.RootFragment.def[n]
         IN IF d.IgnoreValidation THEN ValidateFrom(r, i + 1)
            ELSE LET first == SortStrings(r.dynamicParts)
                     other == SortStrings(d.dynamicParts)
                     sorted == [r EXCEPT !.dynamicParts = first,
                                         !.RootFragment.def[n].dynamicParts = other]
                 IN IF first # other
                    THEN [err |-> RouteValidationError(sorted, n), route |-> sorted]
                    ELSE ValidateFrom(sorted, i + 1)

\* Route.Validate
Validate(r) == ValidateFrom(r, 1)

\* Server.Get: the route is validated and, when valid, appended to s.routes
Get(rs, path, root, ord) ==
    LET v == Validate(newRoute(path, root, ord))
    IN IF v.err # NilErr THEN [err |-> v.err, routes |-> rs]
       ELSE [err |-> NilErr, routes |-> Append(rs, v.route)]

\* LoadRoutes as it would be if it dropped the error of server.Get
LoadRoutesDroppingError ==
    /\ rtpc = "LoadRoutes"
    /\ \E ord \in MapOrders(entry.root) :
         LET got == Get(routes, entry.path, entry.root, ord)
         IN /\ mapOrder' = ord
            /\ routes' = got.routes
            /\ loadErr' = NilErr
    /\ rtpc' = "loaded"
    /\ UNCHANGED <<entry, reqParts, matched, built, mapped>>
    /\ UNCHANGED <<doVars, srvVars, stVars, ntVars>>

\* LoadRoutes, for one route entry
LoadRoutes ==
    /\ rtpc = "LoadRoutes"
    /\ \E ord \in MapOrders(entry.root) :
         LET got == Get(routes, entry.path, entry.root, ord)
         IN /\ mapOrder' = ord
            /\ routes' = got.routes
            /\ loadErr' = got.err
    /\ rtpc' = "loaded"
    /\ UNCHANGED <<entry, reqParts, matched, built, mapped>>
    /\ UNCHANGED <<doVars, srvVars, stVars, ntVars>>

\* the paths inbound requests ask for
RequestPaths == UNION {[1..n -> {<<>>, <<"a">>, <<"b">>}] : n \in 1..(MaxParts + 1)}

\* the loop of Route.matchParts from index i on
RECURSIVE matchPartsFrom(_, _, _)
matchPartsFrom(Parts, pathParts, i) ==
    IF i > Len(Parts) THEN TRUE
    ELSE IF Parts[i] # pathParts[i] /\ ~HasPrefix(Parts[i]) THEN FALSE
    ELSE matchPartsFrom(Parts, pathParts, i + 1)

\* Route.matchParts as it would be if it compared the lengths only
matchPartsByLength(Parts, pathParts) == Len(Parts) = Len(pathParts)

\* Route.matchParts
matchParts(Parts, pathParts) ==
    IF Len(Parts) # Len(pathParts) THEN FALSE
    ELSE matchPartsFrom(Parts, pathParts, 1)

\* m[k] = v
Put(m, k, v) == [x \in DOMAIN m \cup {k} |-> IF x = k THEN v ELSE m[x]]

\* the loop of Route.parametersFor from index i on
RECURSIVE parametersFrom(_, _, _, _)
parametersFrom(Parts, pathParts, i, parameters) ==
    IF i > Len(Parts) THEN parameters
    ELSE IF HasPrefix(Parts[i])
    THEN parametersFrom(Parts, pathParts, i + 1,
                        Put(parameters, Tail(Parts[i]), pathParts[i]))
    ELSE parametersFrom(Parts, pathParts, i + 1, parameters)

\* Route.parametersFor as it would be if it kept the first value of a name
parametersForFirst(Parts, pathParts) ==
    LET dyn == {i \in DOMAIN Parts : HasPrefix(Parts[i])}
    IN [k \in {Tail(Parts[i]) : i \in dyn} |->
           pathParts[CHOOSE i \in dyn :
                         /\ Tail(Parts[i]) = k
                         /\ \A j \in dyn : Tail(Parts[j]) = k => i <= j]]

\* Route.parametersFor
parametersFor(Parts, pathParts) == parametersFrom(Parts, pathParts, 1, EmptyMap)

\* matchingRoute as it would be if the last matching route served the request
RECURSIVE matchingRouteLast(_, _, _)
matchingRouteLast(rs, parts, i) ==
    IF i > Len(rs) THEN [route |-> 0, parameters |-> EmptyMap]
    ELSE LET rest == matchingRouteLast(rs, parts, i + 1)
         IN IF rest.route # 0 THEN rest
            ELSE IF matchParts(rs[i].Parts, parts)
            THEN [route |-> i, parameters |-> parametersFor(rs[i].Parts, parts)]
            ELSE rest


\* the loop of Server.matchingRoute from the i-th route on
RECURSIVE matchingRouteFrom(_, _, _)
matchingRouteFrom(rs, parts, i) ==
    IF i > Len(rs) THEN [route |-> 0, parameters |-> EmptyMap]
    ELSE IF matchParts(rs[i].Parts, parts)
    THEN [route |-> i, parameters |-> parametersFor(rs[i].Parts, parts)]
    ELSE matchingRouteFrom(rs, parts, i + 1)

\* matchingRoute as it would be if it compared the parts with
\* compareStringSlice, which sorts the slices it is given in place
matchingRouteSorting ==
    /\ rtpc = "loaded"
    /\ \E path \in RequestPaths :
         /\ reqParts' = Split(path)
         /\ matched' = matchingRouteFrom(routes, Split(path), 1)
    /\ routes' = [i \in DOMAIN routes |->
                     [routes[i] EXCEPT !.Parts = SortStrings(routes[i].Parts)]]
    /\ rtpc' = "matched"
    /\ UNCHANGED <<entry, mapOrder, loadErr, built, mapped>>
    /\ UNCHANGED <<doVars, srvVars, stVars, ntVars>>


\* Server.matchingRoute
matchingRoute ==
    /\ rtpc = "loaded"
    /\ \E path \in RequestPaths :
         /\ reqParts' = Split(path)
         /\ matched' = matchingRouteFrom(routes, Split(path), 1)
    /\ rtpc' = "matched"
    /\ UNCHANGED <<entry, mapOrder, routes, loadErr, built, mapped>>
    /\ UNCHANGED <<doVars, srvVars, stVars, ntVars>>

\* the target bases: scheme and host, and the path of the base
Targets ==
    { [host |-> <<"http://fake.net">>, Path |-> <<>>],
      [host |-> <<"http://fake.net">>, Path |-> <<"/", "x">>] }

\* the values a path parameter is given
ParamValues == {<<"a">>, <<"a", "%2f", "b">>, <<"|", "%2f", "b">>}

\* the maps pathParams, keyed by the dynamic part with its colon
PathParams ==
    UNION {[names -> ParamValues] : names \in SUBSET {<<":", "a">>, <<":", "b">>}}

\* url.Values.Encode of the query
Queries == {<<>>, <<"q=1">>}

\* the loop of Definition.Requestable over d.routeParts: the path written so
\* far, or the part no parameter was provided for
RECURSIVE writePath(_, _, _)
writePath(parts, pathParams, path) ==
    IF parts = <<>> THEN [path |-> path, missing |-> <<>>]
    ELSE IF HasPrefix(Head(parts))
    THEN IF Head(parts) \in DOMAIN pathParams
         THEN writePath(Tail(parts), pathParams,
                        path \o <<"/">> \o pathParams[Head(parts)])
         ELSE [path |-> path \o <<"/">>, missing |-> Head(parts)]
    ELSE writePath(Tail(parts), pathParams, path \o <<"/">> \o Head(parts))

\* strings.Join(parts, "/")
RECURSIVE Join(_)
Join(parts) ==
    IF parts = <<>> THEN <<>>
    ELSE IF Len(parts) = 1 THEN Head(parts)
    ELSE Head(parts) \o <<"/">> \o Join(Tail(parts))

\* url.PathUnescape: %2f stands for "/"
PathUnescape(path) == [i \in DOMAIN path |-> IF path[i] = "%2f" THEN "/" ELSE path[i]]

\* net/url: whether a raw path needs no escaping
validEncoded(raw) == \A i \in DOMAIN raw : raw[i] # "|"

\* net/url: the escaped form of a path
escape(path) == [i \in DOMAIN path |-> IF path[i] = "|" THEN "%7C" ELSE path[i]]

\* buildURL: the clone of base with the query, Path and RawPath set
buildURL(base, path, query) ==
    [host |-> base.host, RawQuery |-> query,
     Path |-> PathUnescape(path), RawPath |-> path]

\* URL.EscapedPath: RawPath when it is a valid encoding of Path
EscapedPath(u) ==
    IF u.RawPath # <<>> /\ validEncoded(u.RawPath) /\ PathUnescape(u.RawPath) = u.Path
    THEN u.RawPath
    ELSE escape(u.Path)

\* Request.URL: fr.RequestURL.String()
URL(u) ==
    u.host \o EscapedPath(u) \o (IF u.RawQuery = <<>> THEN <<>> ELSE <<"?">> \o u.RawQuery)

MissingParameter(part, d) ==
    [type |-> "no parameter was provided", part |-> part, route |-> d.Path]

\* Definition.Requestable as it would be if a missing parameter were written
\* as the empty string
RequestableDefaulting(d, target, pathParams, query) ==
    LET all == [k \in {<<":", "a">>, <<":", "b">>} |->
                   IF k \in DOMAIN pathParams THEN pathParams[k] ELSE <<>>]
        written == writePath(d.routeParts, all, <<>>)
    IN [request |-> [RequestURL |-> buildURL(target, written.path, query),
                     Definition |-> d,
                     templateURL |-> buildURL(target, Join(d.routeParts), <<>>)],
        err |-> NilErr]

\* Definition.Requestable
Requestable(d, target, pathParams, query) ==
    LET written == writePath(d.routeParts, pathParams, <<>>)
    IN IF written.missing # <<>>
       THEN [request |-> NoRequest, err |-> MissingParameter(written.missing, d)]
       ELSE [request |-> [RequestURL |-> buildURL(target, written.path, query),
                          Definition |-> d,
                          templateURL |-> buildURL(target, Join(d.routeParts), <<>>)],
             err |-> NilErr]

\* a fragment definition is made into a requestable
BuildRequestable ==
    /\ rtpc = "Requestable"
    /\ \E d \in FragmentDefinitions, target \in Targets,
          pathParams \in PathParams, query \in Queries :
         LET got == Requestable(d, target, pathParams, query)
         IN built' = [d |-> d, target |-> target, pathParams |-> pathParams,
                      query |-> query, request |-> got.request, err |-> got.err]
    /\ rtpc' = "built"
    /\ UNCHANGED <<entry, mapOrder, routes, loadErr, reqParts, matched, mapped>>
    /\ UNCHANGED <<doVars, srvVars, stVars, ntVars>>

\* what Request.Do returns for the fragments of route r: result i answers
\* requestable i, and its Body is the body of node r.fragmentsToRequest[i]
ResultsOf(r) == [i \in DOMAIN r.fragmentsToRequest |-> [Body |-> r.fragmentsToRequest[i]]]

\* mapResultsToFragmentKey
mapResultsToFragmentKey(r, rs) ==
    LET order == r.fragmentOrder
        last(k) == CHOOSE i \in DOMAIN order :
                       /\ order[i] = k
                       /\ \A j \in DOMAIN order : order[j] = k => j <= i
    IN [k \in {order[i] : i \in DOMAIN order} |-> rs[last(k)]]

\* responseBuilder.SetFragments up to the call of stitch, for a registered route
MapResults ==
    /\ rtpc = "loaded"
    /\ routes # <<>>
    /\ mapped' = [results |-> ResultsOf(routes[1]),
                  resultMap |-> mapResultsToFragmentKey(routes[1], ResultsOf(routes[1]))]
    /\ rtpc' = "mapped"
    /\ UNCHANGED <<entry, mapOrder, routes, loadErr, reqParts, matched, built>>
    /\ UNCHANGED <<doVars, srvVars, stVars, ntVars>>

\* Route.dynamicPartsFromRequest: the request's part under every dynamic part
\* of the route, colon included
RECURSIVE dynamicPartsFrom(_, _, _, _)
dynamicPartsFrom(Parts, routeParts, i, dynamicParts) ==
    IF i > Len(Parts) THEN dynamicParts
    ELSE IF HasPrefix(Parts[i])
    THEN dynamicPartsFrom(Parts, routeParts, i + 1,
                          Put(dynamicParts, Parts[i], routeParts[i]))
    ELSE dynamicPartsFrom(Parts, routeParts, i + 1, dynamicParts)

dynamicPartsFromRequest(r, routeParts) == dynamicPartsFrom(r.Parts, routeParts, 1, EmptyMap)

\* Definition.Requestable called for the fragments of r.FragmentsToRequest()
\* in turn, from the i-th on, until one of them fails
RECURSIVE requestablesFrom(_, _, _, _, _, _)
requestablesFrom(r, target, pathParams, query, i, last) ==
    IF i > Len(r.fragmentsToRequest) THEN last
    ELSE LET d == r.RootFragment.def[r.fragmentsToRequest[i]]
             got == Requestable(d, target, pathParams, query)
             call == [d |-> d, target |-> target, pathParams |-> pathParams,
                      query |-> query, request |-> got.request, err |-> got.err]
         IN IF got.err # NilErr THEN call
            ELSE requestablesFrom(r, target, pathParams, query, i + 1, call)

\* the fragments of the matched route are made into requestables with the
\* dynamic parts of the request
RouteRequestables ==
    /\ rtpc = "matched"
    /\ matched.route # 0
    /\ \E target \in Targets, query \in Queries :
         LET r == routes[matched.route]
         IN built' = requestablesFrom(r, target, dynamicPartsFromRequest(r, reqParts),
                                      query, 1, NotBuilt)
    /\ rtpc' = "built"
    /\ UNCHANGED <<entry, mapOrder, routes, loadErr, reqParts, matched, mapped>>
    /\ UNCHANGED <<doVars, srvVars, stVars, ntVars>>

\* the query strings of inbound requests, as r.URL.Query() parses them: the
\* values of each name in the order of the query string
InboundQueries ==
    UNION {[names -> {<<<<"b">>>>, <<<<>>, <<"b">>>>}] : names \in SUBSET {<<"a">>, <<"x">>}}

\* url.Values.Get: the first value of the name, or the empty string
ValuesGet(v, name) ==
    IF name \in DOMAIN v /\ v[name] # <<>> THEN v[name][1] ELSE <<>>

\* the two loops of Server.handleRequest that build the query of a fragment
\* request: the route parameters are added first, and the values of an inbound
\* name are added when query.Get(name) is the empty string
fragmentQuery(parameters, urlQuery) ==
    LET query == [name \in DOMAIN parameters |-> <<parameters[name]>>]
    IN [name \in DOMAIN query \cup DOMAIN urlQuery |->
           IF name \in DOMAIN urlQuery /\ ValuesGet(query, name) = <<>>
           THEN (IF name \in DOMAIN query THEN query[name] ELSE <<>>) \o urlQuery[name]
           ELSE query[name]]

\* url.Values.Encode: the pairs of name and value, sorted by name
Pairs(v) ==
    LET keys == SortStrings(CHOOSE l \in [1..Cardinality(DOMAIN v) -> DOMAIN v] :
                                \A k \in DOMAIN v : \E i \in DOMAIN l : l[i] = k)
        F[i \in 0..Len(keys)] ==
            IF i = 0 THEN <<>>
            ELSE F[i - 1] \o [j \in DOMAIN v[keys[i]] |->
                                 [name |-> keys[i], value |-> v[keys[i]][j]]]
    IN F[Len(keys)]

\* Fragment.UrlWithParams
UrlWithParams(f, parameters) == [Path |-> f, RawQuery |-> Pairs(parameters)]

\* Server.handleRequest up to WithFragment: the URL of the request of a fragment
\* of the matched route
handleRequestQuery ==
    /\ rtpc = "matched"
    /\ matched.route # 0
    /\ \E urlQuery \in InboundQueries :
         built' = [urlQuery |-> urlQuery,
                   url |-> UrlWithParams(<<"x">>,
                                         fragmentQuery(matched.parameters, urlQuery))]
    /\ rtpc' = "queried"
    /\ UNCHANGED <<entry, mapOrder, routes, loadErr, reqParts, matched, mapped>>
    /\ UNCHANGED <<doVars, srvVars, stVars, ntVars>>


\* largest number of routes a server is given
MaxRoutes == 2

\* Server.Get of src/server.go: a further route is appended to s.routes
ServerGet ==
    /\ rtpc = "loaded"
    /\ Len(routes) < MaxRoutes
    /\ \E path \in RoutePaths :
         routes' = Append(routes, newRoute(path, entry.root, mapOrder))
    /\ UNCHANGED <<entry, mapOrder, loadErr, reqParts, matched, built, mapped, rtpc>>
    /\ UNCHANGED <<doVars, srvVars, stVars, ntVars>>


\* the request is over and the server takes the next one
AcceptRequest ==
    /\ rtpc \in {"matched", "built", "queried", "mapped"}
    /\ reqParts' = <<>>
    /\ matched' = NoMatch
    /\ built' = NotBuilt
    /\ mapped' = NotMapped
    /\ rtpc' = "loaded"
    /\ UNCHANGED <<entry, mapOrder, routes, loadErr>>
    /\ UNCHANGED <<doVars, srvVars, stVars, ntVars>>

NextRoutes ==
    \/ LoadRoutes
    \/ ServerGet
    \/ matchingRoute
    \/ AcceptRequest


NextServe ==
    \/ LoadRoutes
    \/ matchingRoute
    \/ RouteRequestables
    \/ handleRequestQuery
    \/ MapResults
    \/ AcceptRequest


InitRoute ==
    /\ entry \in [path : RoutePaths, root : RootFragments]
    /\ mapOrder = <<>>
    /\ routes = <<>>
    /\ loadErr = NilErr
    /\ reqParts = <<>>
    /\ matched = NoMatch
    /\ built = NotBuilt
    /\ mapped = NotMapped
    /\ rtpc = "LoadRoutes"
    /\ IdleDo
    /\ IdleServer
    /\ IdleStitch
    /\ IdleNotifier

\* a server whose routes have a layout without children
InitRoutes ==
    /\ InitRoute
    /\ entry.root.parent = <<0>>
    /\ entry.root.def[1].Path = <<<<"x">>>>


NextRoute ==
    \/ LoadRoutes
    \/ matchingRoute
    \/ MapResults

InitRequestable ==
    /\ entry = NoEntry
    /\ mapOrder = <<>>
    /\ routes = <<>>
    /\ loadErr = NilErr
    /\ reqParts = <<>>
    /\ matched = NoMatch
    /\ built = NotBuilt
    /\ mapped = NotMapped
    /\ rtpc = "Requestable"
    /\ IdleDo
    /\ IdleServer
    /\ IdleStitch
    /\ IdleNotifier

NextRequestable == BuildRequestable

(* ------------------------------- notifier ----------------------------- *)

\* largest number of handlers subscribed to one notifier
MaxHandlers == 3

\* the names events are subscribed to and emitted under
Names == {"test", "ignore"}

\* the contexts Emit is called with: the keys of the values they hold, a
\* handler adding a value under its own number
Contexts == {{}, {0}}

\* the functions that are subscribed with On
OnHandlers == {"handler", "other"}

\* reflect.ValueOf(handler).Pointer() of a subscription: the function it is,
\* an Around handler being the function that adds a value or the one that
\* does not
Pointer(subscription) ==
    IF "fn" \in DOMAIN subscription THEN subscription.fn ELSE subscription.adds

\* context.WithValue(ctx, key, value)
WithValue(c, key) == c \cup {key}

\* n.aroundSubscriptions[name], n.onSubscriptions[name]
Subscriptions(m, name) == IF name \in DOMAIN m THEN m[name] ELSE <<>>

\* DefaultNotifier.Around: the handler is appended to the list of name
Around ==
    /\ ~mu
    /\ registered < MaxHandlers
    /\ \E name \in Names, adds \in BOOLEAN :
         aroundSubscriptions' =
             Put(aroundSubscriptions, name,
                 Append(Subscriptions(aroundSubscriptions, name),
                        [id |-> registered + 1, adds |-> adds]))
    /\ registered' = registered + 1
    /\ UNCHANGED <<onSubscriptions, npc, emitted, callee, stack, callCtx, messages,
                   received, passed, fctx>>
    /\ UNCHANGED <<mu, removing>>
    /\ UNCHANGED <<doVars, srvVars, stVars, rtVars>>

\* DefaultNotifier.On
On ==
    /\ ~mu
    /\ registered < MaxHandlers
    /\ \E name \in Names, fn \in OnHandlers :
         onSubscriptions' =
             Put(onSubscriptions, name,
                 Append(Subscriptions(onSubscriptions, name),
                        [id |-> registered + 1, fn |-> fn]))
    /\ registered' = registered + 1
    /\ UNCHANGED <<aroundSubscriptions, npc, emitted, callee, stack, callCtx, messages,
                   received, passed, fctx>>
    /\ UNCHANGED <<mu, removing>>
    /\ UNCHANGED <<doVars, srvVars, stVars, rtVars>>

\* the loop of Emit over subscriptions from i down to 1 as it would be if the
\* closures were chained from the first subscription to the last
RECURSIVE chainForward(_, _, _)
chainForward(subscriptions, i, chain) ==
    IF i = 0 THEN chain
    ELSE chainForward(subscriptions, i - 1, Append(chain, subscriptions[i]))

\* the loop of Emit over subscriptions from i down to 1: the closure made in
\* an iteration calls subscriptions[i] with the chain made so far as last
RECURSIVE chainFrom(_, _, _)
chainFrom(subscriptions, i, chain) ==
    IF i = 0 THEN chain
    ELSE chainFrom(subscriptions, i - 1, <<subscriptions[i]>> \o chain)

\* DefaultNotifier.Emit up to chain(ctx): the On subscriptions of name are
\* called, the chain of closures is built around f
Emit ==
    /\ npc = "idle"
    /\ \E name \in Names, c \in Contexts :
         LET ons == Subscriptions(onSubscriptions, name)
             arounds == Subscriptions(aroundSubscriptions, name)
         IN /\ emitted' = [name |-> name, ctx |-> c, at |-> registered]
            /\ messages' = [i \in DOMAIN ons |-> <<"on", ons[i].id>>]
            /\ callee' = chainFrom(arounds, Len(arounds), <<>>)
            /\ callCtx' = c
    /\ stack' = <<>>
    /\ received' = [h \in {} |-> {}]
    /\ passed' = [h \in {} |-> {}]
    /\ fctx' = <<>>
    /\ npc' = "calling"
    /\ UNCHANGED <<aroundSubscriptions, onSubscriptions, registered>>
    /\ UNCHANGED <<mu, removing>>
    /\ UNCHANGED <<doVars, srvVars, stVars, rtVars>>

\* CallAround as it would be if the closure gave its subscription the context
\* of Emit instead of the one it is called with
CallAroundOuterCtx ==
    /\ npc = "calling"
    /\ callee # <<>>
    /\ LET subscription == Head(callee)
           next == IF subscription.adds THEN WithValue(emitted.ctx, subscription.id)
                   ELSE emitted.ctx
       IN /\ messages' = Append(messages, <<"before", subscription.id>>)
          /\ received' = Put(received, subscription.id, emitted.ctx)
          /\ passed' = Put(passed, subscription.id, next)
          /\ stack' = Append(stack, subscription.id)
          /\ callCtx' = next
    /\ callee' = Tail(callee)
    /\ UNCHANGED <<aroundSubscriptions, onSubscriptions, registered, npc, emitted, fctx>>
    /\ UNCHANGED <<mu, removing>>
    /\ UNCHANGED <<doVars, srvVars, stVars, rtVars>>


\* a closure of the chain is called: its subscription runs up to the call
\* of the callback it was given, with the context it passes on
CallAround ==
    /\ npc = "calling"
    /\ callee # <<>>
    /\ LET subscription == Head(callee)
           next == IF subscription.adds THEN WithValue(callCtx, subscription.id)
                   ELSE callCtx
       IN /\ messages' = Append(messages, <<"before", subscription.id>>)
          /\ received' = Put(received, subscription.id, callCtx)
          /\ passed' = Put(passed, subscription.id, next)
          /\ stack' = Append(stack, subscription.id)
          /\ callCtx' = next
    /\ callee' = Tail(callee)
    /\ UNCHANGED <<aroundSubscriptions, onSubscriptions, registered, npc, emitted, fctx>>
    /\ UNCHANGED <<mu, removing>>
    /\ UNCHANGED <<doVars, srvVars, stVars, rtVars>>

\* the innermost closure is f
CallF ==
    /\ npc = "calling"
    /\ callee = <<>>
    /\ messages' = Append(messages, <<"executing", 0>>)
    /\ fctx' = Append(fctx, callCtx)
    /\ npc' = "returning"
    /\ UNCHANGED <<aroundSubscriptions, onSubscriptions, registered, emitted, callee,
                   stack, callCtx, received, passed>>
    /\ UNCHANGED <<mu, removing>>
    /\ UNCHANGED <<doVars, srvVars, stVars, rtVars>>

\* the callback of the innermost waiting handler has returned: the handler
\* runs to its end
ReturnAround ==
    /\ npc = "returning"
    /\ stack # <<>>
    /\ messages' = Append(messages, <<"after", stack[Len(stack)]>>)
    /\ stack' = SubSeq(stack, 1, Len(stack) - 1)
    /\ UNCHANGED <<aroundSubscriptions, onSubscriptions, registered, npc, emitted,
                   callee, callCtx, received, passed, fctx>>
    /\ UNCHANGED <<mu, removing>>
    /\ UNCHANGED <<doVars, srvVars, stVars, rtVars>>

\* chain(ctx) has returned, and Emit with it
EmitReturn ==
    /\ npc = "returning"
    /\ stack = <<>>
    /\ npc' = "idle"
    /\ UNCHANGED <<aroundSubscriptions, onSubscriptions, registered, emitted, callee,
                   stack, callCtx, messages, received, passed, fctx>>
    /\ UNCHANGED <<mu, removing>>
    /\ UNCHANGED <<doVars, srvVars, stVars, rtVars>>

\* append(subscriptions[:i], subscriptions[i+1:]...) as the slice that is
\* ranged over sees it: the elements after i move down by one place in the
\* array the slices share, and the last place keeps its element
shift(subscriptions, i) ==
    SubSeq(subscriptions, 1, i - 1) \o SubSeq(subscriptions, i + 1, Len(subscriptions))
        \o <<subscriptions[Len(subscriptions)]>>

\* the loop of RemoveOn and RemoveAround from index i on: the array of the
\* slice after it, and whether the map was assigned to
RECURSIVE removeFrom(_, _, _, _)
removeFrom(subscriptions, handler, i, hit) ==
    IF i > Len(subscriptions) THEN [array |-> subscriptions, hit |-> hit]
    ELSE IF Pointer(subscriptions[i]) = handler
    THEN removeFrom(shift(subscriptions, i), handler, i + 1, TRUE)
    ELSE removeFrom(subscriptions, handler, i + 1, hit)

\* the subscription map m after RemoveOn or RemoveAround of handler under
\* name: every assignment of the loop stores a slice one shorter than the
\* one ranged over, and deletes the name when that is empty
remove(m, name, handler) ==
    IF name \notin DOMAIN m THEN m
    ELSE LET got == removeFrom(m[name], handler, 1, FALSE)
         IN IF ~got.hit THEN m
            ELSE IF Len(m[name]) = 1 THEN [k \in DOMAIN m \ {name} |-> m[k]]
            ELSE Put(m, name, SubSeq(got.array, 1, Len(m[name]) - 1))

\* the subscription map m when the loop has moved the elements for the first
\* match and has not assigned to the map yet
moved(m, name, handler) ==
    IF name \notin DOMAIN m THEN m
    ELSE LET hits == {i \in DOMAIN m[name] : Pointer(m[name][i]) = handler}
         IN IF hits = {} THEN m
            ELSE Put(m, name, shift(m[name], CHOOSE i \in hits : \A j \in hits : i <= j))

\* DefaultNotifier.RemoveOn: n.mu is locked and the loop runs up to its
\* first assignment to the map
RemoveOn ==
    /\ ~mu
    /\ \E name \in Names, handler \in OnHandlers :
         /\ removing' = [op |-> "RemoveOn", name |-> name, handler |-> handler,
                         before |-> onSubscriptions]
         /\ onSubscriptions' = moved(onSubscriptions, name, handler)
    /\ mu' = TRUE
    /\ UNCHANGED <<aroundSubscriptions, registered, npc, emitted, callee, stack, callCtx,
                   messages, received, passed, fctx>>
    /\ UNCHANGED <<doVars, srvVars, stVars, rtVars>>

\* DefaultNotifier.RemoveAround, in the same way
RemoveAround ==
    /\ ~mu
    /\ \E name \in Names, handler \in BOOLEAN :
         /\ removing' = [op |-> "RemoveAround", name |-> name, handler |-> handler,
                         before |-> aroundSubscriptions]
         /\ aroundSubscriptions' = moved(aroundSubscriptions, name, handler)
    /\ mu' = TRUE
    /\ UNCHANGED <<onSubscriptions, registered, npc, emitted, callee, stack, callCtx,
                   messages, received, passed, fctx>>
    /\ UNCHANGED <<doVars, srvVars, stVars, rtVars>>

\* the rest of RemoveOn or RemoveAround: the assignments to the map, the end
\* of the loop and the deferred n.mu.Unlock()
RemoveReturn ==
    /\ mu
    /\ removing # NoCall
    /\ IF removing.op = "RemoveOn"
       THEN /\ onSubscriptions' = remove(removing.before, removing.name, removing.handler)
            /\ aroundSubscriptions' = aroundSubscriptions
       ELSE /\ aroundSubscriptions' = remove(removing.before, removing.name, removing.handler)
            /\ onSubscriptions' = onSubscriptions
    /\ mu' = FALSE
    /\ removing' = NoCall
    /\ UNCHANGED <<registered, npc, emitted, callee, stack, callCtx, messages, received,
                   passed, fctx>>
    /\ UNCHANGED <<doVars, srvVars, stVars, rtVars>>


\* notifier.New()
InitNotifier ==
    /\ aroundSubscriptions = [name \in {} |-> <<>>]
    /\ onSubscriptions = [name \in {} |-> <<>>]
    /\ registered = 0
    /\ npc = "idle"
    /\ emitted = NoEmit
    /\ callee = <<>>
    /\ stack = <<>>
    /\ callCtx = {}
    /\ messages = <<>>
    /\ received = [h \in {} |-> {}]
    /\ passed = [h \in {} |-> {}]
    /\ fctx = <<>>
    /\ mu = FALSE
    /\ removing = NoCall
    /\ IdleDo
    /\ IdleServer
    /\ IdleStitch
    /\ IdleRoute

NextNotifier ==
    \/ Around
    \/ On
    \/ Emit
    \/ CallAround
    \/ CallF
    \/ ReturnAround
    \/ EmitReturn


NextRemove ==
    \/ Around
    \/ On
    \/ RemoveOn
    \/ RemoveAround
    \/ RemoveReturn
    \/ Emit
    \/ CallAround
    \/ CallF
    \/ ReturnAround
    \/ EmitReturn


InitDo ==
    /\ non2xxErrors \in BOOLEAN
    /\ SecretFilter \in SUBSET AllowedKeys
    /\ \E n \in 1..MaxReq : requestables = SubSeq(URLs, 1, n)
    /\ dpc = "start"
    /\ launched = 0
    /\ tpc = [i \in Tasks |-> "idle"]
    /\ tout = [i \in Tasks |-> [result |-> NilResult, resp |-> NoResponse, err |-> NilErr]]
    /\ errCh = <<>>
    /\ results = [i \in Tasks |-> NilResult]
    /\ wgCount = 0
    /\ doneClosed = FALSE
    /\ ctx = LiveCtx
    /\ ret = NoReturn
    /\ fetchCount = [i \in Tasks |-> 0]
    /\ writes = [i \in Tasks |-> 0]
    /\ IdleServer
    /\ IdleStitch
    /\ IdleRoute
    /\ IdleNotifier

NextDo ==
    \/ DoEnter
    \/ DoLaunch
    \/ DoWait
    \/ Fetch
    \/ SendErr
    \/ Store
    \/ WgDone
    \/ CloseDone
    \/ DoSelectErr
    \/ DoSelectDone
    \/ DoSelectCtx
    \/ DeadlineFire
    \/ ExternalCancel

NextUnbuffered ==
    \/ DoEnter
    \/ DoLaunch
    \/ DoWait
    \/ Fetch
    \/ Store
    \/ WgDone
    \/ CloseDone
    \/ DoSelectErrUnbuffered
    \/ DoSelectDone
    \/ DoSelectCtxErr
    \/ DeadlineFire
    \/ ExternalCancel


vars == <<doVars, srvVars, stVars, rtVars, ntVars>>

SpecDo == InitDo /\ [][NextDo]_vars

\* the goroutine running Do is scheduled; nothing is assumed of the upstreams
FairSpecDo == SpecDo /\ WF_vars(Orchestrator)

\* the fetch goroutines and the goroutine waiting on them are scheduled; a
\* transport call is only assumed to return once its context is done
FairSpecTasks ==
    /\ SpecDo
    /\ \A i \in 1..MaxReq :
         /\ WF_vars(i \in Tasks /\ ctx.err # "nil" /\ TaskFetch(i))
         /\ WF_vars(i \in Tasks /\ TaskSendErr(i))
         /\ WF_vars(i \in Tasks /\ TaskStore(i))
         /\ WF_vars(i \in Tasks /\ TaskDone(i))
    /\ WF_vars(CloseDone)

\* Request.Do with the unbuffered errCh: Do, the fetch goroutines and the
\* goroutine waiting on them are scheduled, and a transport call returns once
\* its context is done
FairSpecUnbuffered ==
    /\ InitDo
    /\ [][NextUnbuffered]_vars
    /\ \A i \in 1..MaxReq :
         /\ WF_vars(i \in Tasks /\ ctx.err # "nil" /\ TaskFetch(i))
         /\ WF_vars(i \in Tasks /\ TaskStore(i))
         /\ WF_vars(i \in Tasks /\ TaskDone(i))
    /\ WF_vars(CloseDone)
    /\ WF_vars(DoEnter \/ DoLaunch \/ DoWait \/ DoSelectErrUnbuffered \/ DoSelectDone
                   \/ DoSelectCtxErr)


SpecServer == InitServer /\ [][NextServer]_vars

SpecStitch == InitStitch /\ [][NextStitch]_vars

SpecRoute == InitRoute /\ [][NextRoute]_vars

\* a server with one registered route handling one request after the other
SpecServe == InitRoute /\ [][NextServe]_vars


\* a server that is given several routes and matches inbound paths
SpecRoutes == InitRoutes /\ [][NextRoutes]_vars


SpecNotifier == InitNotifier /\ [][NextNotifier]_vars


\* a notifier whose handlers are subscribed and removed while it emits
SpecRemove == InitNotifier /\ [][NextRemove]_vars


SpecRequestable == InitRequestable /\ [][NextRequestable]_vars

(* ------------------------- properties of Request.Do ------------------- *)

Failed(i) == tout[i].err # NilErr

Returned == dpc = "returned"

\* C1: when Do returns with a nil error, the i-th returned element is what
\* the fetch of the i-th requestable produced, whatever the completion order
C1_ResultsInSubmissionOrder ==
    (Returned /\ ret.err = NilErr) =>
        /\ Len(ret.results) = N
        /\ \A i \in Tasks : ret.results[i] = tout[i].result
        /\ \A i \in Tasks : ret.results[i] # NilResult =>
                                /\ ret.results[i].req = i
                                /\ ret.results[i].Url = requestables[i]

C1_Witness ==
    /\ Returned
    /\ ret.err = NilErr
    /\ N = 2
    /\ \A i \in Tasks : ret.results[i].req = i
    /\ ret.results[1].Url # ret.results[2].Url
    /\ ret.results[1].StatusCode # ret.results[2].StatusCode

\* C2: with Non2xxErrors set, once a fetch has failed (non-2xx status or
\* transport error) Do returns no results and a non-nil error
C2_FailureNeverNilError ==
    (Returned /\ non2xxErrors /\ \E i \in Tasks : Failed(i)) =>
        (ret.err # NilErr /\ ret.results = <<>>)

\* C3: when Do returns the error of a failed fetch, the shared context is
\* cancelled
C3_ContextCancelledOnFailure ==
    (Returned /\ ret.err.type \in {"ResultError", "url.Error"}) => ctx.err # "nil"

C3_Witness ==
    /\ Returned
    /\ ret.err.type = "ResultError"
    /\ ctx.cause = "cancel"
    /\ \E j \in Tasks : tpc[j] = "fetch"

\* C4: once a failure has been signalled Do returns, also when the other
\* fetches never complete, and a return that leaves fetches unfinished carries
\* no results and an error
C4_FailFastReturn ==
    /\ []((Returned /\ \E j \in Tasks : tpc[j] # "exit") =>
              (ret.results = <<>> /\ ret.err # NilErr))
    /\ ((errCh # <<>>) ~> Returned)

C4_Witness ==
    /\ Returned
    /\ ret.err.type = "ResultError"
    /\ ret.results = <<>>
    /\ \E j \in Tasks : tpc[j] = "fetch" /\ fetchCount[j] = 0

\* C5: when the deadline elapses before the fetches have all finished (and
\* before any of them has signalled a failure), Do returns no results and a
\* TimeoutError wrapping the deadline-exceeded error
C5_DeadlineGivesTimeoutError ==
    (Returned /\ ctx.cause = "deadline" /\ ctx.first) =>
        (ret.results = <<>> /\ ret.err = newTimeoutError("DeadlineExceeded"))

\* C6: when the caller's context is cancelled (possibly before Do starts)
\* before the fetches have finished or failed, Do returns ErrRequestCanceled
\* wrapping context.Canceled
C6_ExternalCancelGivesCancellationError ==
    (Returned /\ ctx.cause = "external" /\ ctx.first) =>
        (ret.results = <<>> /\ ret.err = newCancellationError("Canceled"))

\* C7: with Non2xxErrors unset, a non-2xx answer yields a normal Result with
\* that status, and Do returns it with a nil error
C7_Non2xxToleratedWhenDisabled ==
    ~non2xxErrors =>
        /\ \A i \in Tasks : tout[i].resp.kind = "http" =>
               /\ tout[i].err = NilErr
               /\ tout[i].result.StatusCode = tout[i].resp.status
        /\ (Returned /\ ctx.cause = "cancel" /\ \A i \in Tasks : tout[i].resp.kind = "http") =>
               /\ ret.err = NilErr
               /\ \A i \in Tasks : ret.results[i].StatusCode = tout[i].resp.status

C7_Witness ==
    /\ ~non2xxErrors
    /\ Returned
    /\ ret.err = NilErr
    /\ \E i \in Tasks : ret.results[i].StatusCode = 500

\* C8: every requestable is fetched at most once, the outcome of a failed
\* fetch is never replaced, and what Do returned is final
C8_NoRetry ==
    /\ [](\A i \in Tasks : fetchCount[i] <= 1)
    /\ [][/\ \A i \in Tasks : Failed(i) => tout'[i] = tout[i]
          /\ Returned => (dpc' = "returned" /\ ret' = ret)]_vars

C8_Witness ==
    /\ Returned
    /\ ret.err # NilErr
    /\ \E i \in Tasks : Failed(i) /\ tpc[i] = "exit" /\ fetchCount[i] = 1

(* ------------------------- properties of the server ------------------- *)

Terminated == spc \in {"done", "panic"}

\* C9: a request handed to the request handler ends in exactly one terminal
\* state: a matched one in Written after Fetching, Succeeded and Stitching or
\* in ErrorHandled after Fetching and Failed, an unmatched one in Written
\* after Passthrough
C9_OneTerminalState ==
    (Terminated /\ ~inbound.ping) =>
        IF inbound.fragments > 0
        THEN lifecycle \in {<<"Matched", "Fetching", "Succeeded", "Stitching", "Written">>,
                            <<"Matched", "Fetching", "Failed", "ErrorHandled">>}
        ELSE lifecycle = <<"Unmatched", "Passthrough", "Written">>

(* ------------------------ properties of the stitcher ------------------ *)

\* stitching as the claim describes it: children first, then every child's
\* marker <viewproxy-fragment id="NAME"></viewproxy-fragment> replaced
RECURSIVE pairedSubstitute(_, _, _, _)
pairedSubstitute(st, self, kids, childContent) ==
    IF kids = <<>> THEN self
    ELSE pairedSubstitute(st,
                          Replace(self, PairedMarker(st[Head(kids)].replacementID),
                                  childContent[Head(kids)]),
                          Tail(kids), childContent)

RECURSIVE pairedStitch(_, _, _, _)
pairedStitch(st, res, ord, n) ==
    LET kids == DependentStructures(st, n)
        childContent == [m \in kids |-> pairedStitch(st, res, ord, m)]
        self == res[st[n].key]
    IN IF kids = {} THEN self
       ELSE pairedSubstitute(st, self, Ordered(kids, ord), childContent)

\* C10: stitching replaces, children before parent, the marker
\* <viewproxy-fragment id="NAME"></viewproxy-fragment> of every child in its
\* parent's body by the child's stitched bytes, so that <html>[marker body]</html>
\* with body = [marker inner] and inner = X gives <html>X</html>
C10_StitchReplacesPairedMarkers ==
    (stpc = "stitched" /\ \A n \in DOMAIN bodies : \A i \in DOMAIN bodies[n] : bodies[n][i] # "/>") =>
        out = pairedStitch(structure, resultMap(structure, bodies), iterOrder, 1)

(* ------------------------- properties of the routes ------------------- *)

Nodes(t) == DOMAIN t.parent

\* the strings of a list, as a set
Set(l) == {l[i] : i \in DOMAIN l}

\* C11: the map made of the results gives, under the tree-path key of every
\* node of the route's tree, the result that was fetched for that node's own
\* fragment definition
C11_ResultsMappedToOwnNode ==
    rtpc = "mapped" =>
        \A n \in Nodes(routes[1].RootFragment) :
            mapped.resultMap[routes[1].structure[n].key].Body = n

\* C12: FragmentOrder() is the sorted list of the tree-path keys of all the
\* nodes, each node once, FragmentsToRequest()[i] is the node whose key is
\* FragmentOrder()[i], and neither depends on the order of map iteration
C12_FragmentOrderSortedKeys ==
    \A r \in DOMAIN routes :
        LET t == routes[r].RootFragment
            order == routes[r].fragmentOrder
            frags == routes[r].fragmentsToRequest
        IN /\ Len(order) = Cardinality(Nodes(t))
           /\ Len(frags) = Len(order)
           /\ \A i, j \in DOMAIN order : i < j => Less(order[i], order[j])
           /\ \A i \in DOMAIN order : order[i] = structureKey(t, frags[i])
           /\ \A n \in Nodes(t) : \E i \in DOMAIN frags : frags[i] = n
           /\ \A ord \in MapOrders(t) :
                  /\ memoizeFragments(t, ord).fragmentOrder = order
                  /\ memoizeFragments(t, ord).fragmentsToRequest = frags

\* whether node n of the entry's tree is to be validated and its dynamic
\* segment names differ, as a set, from those of the route path
Mismatch(n) ==
    /\ ~entry.root.def[n].IgnoreValidation
    /\ Set(DynamicPartsOf(entry.root.def[n].routeParts))
           # Set(DynamicPartsOf(Split(entry.path)))

\* C13: Validate returns nil exactly when no node that is to be validated
\* has a set of dynamic segment names other than the route's, and its error
\* names the route path and the path of a mismatching fragment
C13_ValidateComparesSets ==
    rtpc # "LoadRoutes" =>
        /\ loadErr = NilErr <=> \A n \in Nodes(entry.root) : ~Mismatch(n)
        /\ loadErr # NilErr =>
               /\ loadErr.type = "RouteValidationError"
               /\ loadErr.Route = entry.path
               /\ \E n \in Nodes(entry.root) :
                      Mismatch(n) /\ loadErr.Fragment = entry.root.def[n].Path

DynamicAt(Parts) == {i \in DOMAIN Parts : HasPrefix(Parts[i])}

\* C15: matchParts is true exactly when the path has as many segments as the
\* route and every segment of the route that is not dynamic equals the
\* segment of the path at its position
C15_MatchPartsIffLiteralsEqual ==
    (rtpc = "matched" /\ routes # <<>>) =>
        LET Parts == routes[1].Parts IN
        (matched.route = 1) <=>
            /\ Len(Parts) = Len(reqParts)
            /\ \A i \in DOMAIN Parts \ DynamicAt(Parts) : Parts[i] = reqParts[i]

C15_Witness ==
    /\ rtpc = "matched"
    /\ routes # <<>>
    /\ matched.route = 1
    /\ DynamicAt(routes[1].Parts) # {}
    /\ \E i \in DOMAIN routes[1].Parts \ DynamicAt(routes[1].Parts) : routes[1].Parts[i] # <<>>

\* C16 as stated: the parameters of a matching path hold, for every dynamic
\* segment of the route, the segment of the path at its position under the
\* segment's name, and nothing else
C16_ParametersByPosition ==
    (rtpc = "matched" /\ matched.route = 1) =>
        LET Parts == routes[1].Parts IN
        /\ DOMAIN matched.parameters = {Tail(Parts[i]) : i \in DynamicAt(Parts)}
        /\ \A i \in DynamicAt(Parts) : matched.parameters[Tail(Parts[i])] = reqParts[i]

\* C16 amended: the parameters of a matching path hold, for every name of a
\* dynamic segment of the route, the segment of the path at the last position
\* that carries the name, and nothing else
C16_ParametersByLastPosition ==
    (rtpc = "matched" /\ matched.route = 1) =>
        LET Parts == routes[1].Parts IN
        /\ DOMAIN matched.parameters = {Tail(Parts[i]) : i \in DynamicAt(Parts)}
        /\ \A i \in DynamicAt(Parts) :
               (\A j \in DynamicAt(Parts) : Parts[j] = Parts[i] => j <= i) =>
                   matched.parameters[Tail(Parts[i])] = reqParts[i]

C16_Witness ==
    /\ rtpc = "matched"
    /\ matched.route = 1
    /\ \E i, j \in DynamicAt(routes[1].Parts) :
           /\ i < j
           /\ routes[1].Parts[i] = routes[1].Parts[j]
           /\ reqParts[i] # reqParts[j]
           /\ matched.parameters[Tail(routes[1].Parts[j])] = reqParts[j]

(* ---------------------- properties of the requestables ---------------- *)

\* the path the claim describes: every part after a "/", a dynamic part
\* replaced by its parameter
RECURSIVE Substituted(_, _)
Substituted(parts, pathParams) ==
    IF parts = <<>> THEN <<>>
    ELSE <<"/">> \o (IF HasPrefix(Head(parts)) THEN pathParams[Head(parts)] ELSE Head(parts))
             \o Substituted(Tail(parts), pathParams)

\* whether every dynamic part of definition d has a parameter
Provided(d, pathParams) == \A i \in DOMAIN d.dynamicParts : d.dynamicParts[i] \in DOMAIN pathParams

\* the number of pieces of s that are the escaped slash
Escapes(s) == Cardinality({i \in DOMAIN s : s[i] = "%2f"})

\* C17: the URL of the requestable is the target base followed by the path
\* of the definition with every dynamic part replaced by its parameter
C17_RequestableSubstitutesParams ==
    (rtpc = "built" /\ built.err = NilErr
         /\ \A k \in DOMAIN built.pathParams : validEncoded(built.pathParams[k])) =>
        URL(built.request.RequestURL) =
            built.target.host \o built.target.Path
                \o Substituted(built.d.routeParts, built.pathParams)
                \o (IF built.query = <<>> THEN <<>> ELSE <<"?">> \o built.query)

\* C18: when a dynamic part of the definition has no parameter, Requestable
\* returns the missing-parameter error and no requestable
C18_MissingParameterFails ==
    (rtpc = "built" /\ ~Provided(built.d, built.pathParams)) =>
        /\ built.err # NilErr
        /\ built.err.type = "no parameter was provided"
        /\ built.err.part \in Set(built.d.dynamicParts) \ DOMAIN built.pathParams
        /\ built.request = NoRequest

C18_Witness ==
    /\ rtpc = "built"
    /\ ~Provided(built.d, built.pathParams)
    /\ DOMAIN built.pathParams # {}
    /\ built.err # NilErr

\* C19: a parameter with an escaped slash keeps the escape in the URL of the
\* requestable, which differs from the URL the parameter with a real slash gives
C19_EscapedSlashKept ==
    (rtpc = "built" /\ built.err = NilErr
         /\ \E i \in DOMAIN built.d.dynamicParts :
                Escapes(built.pathParams[built.d.dynamicParts[i]]) > 0) =>
        LET raw == Substituted(built.d.routeParts, built.pathParams)
            slashed == [k \in DOMAIN built.pathParams |-> PathUnescape(built.pathParams[k])]
        IN /\ Escapes(URL(built.request.RequestURL)) = Escapes(raw)
           /\ URL(built.request.RequestURL)
                  # URL(Requestable(built.d, built.target, slashed, built.query).request.RequestURL)

(* ------------------------ properties of passthrough ------------------- *)

FetchFailure(err) == err.type \in {"ResultError", "url.Error"}

AllFinished == launched = N /\ wgCount = 0

\* the context became done before any failure and before the last fetch
ContextFirst == ctx.cause \in {"deadline", "external"} /\ ctx.first

\* a failure was signalled before every fetch had finished and before the
\* context became done: a goroutine sends its error before it calls wg.Done
FailureFirst == ~ContextFirst /\ errCh # <<>>

\* every fetch finished without a failure before the context became done
FinishFirst == ~ContextFirst /\ errCh = <<>> /\ AllFinished

\* C24: when Do returns, its outcome is that of the event that occurred
\* first: a timeout or cancellation error when the context became done first,
\* the failure of a fetch when a failure was signalled first, the results and
\* a nil error when all fetches finished first; a later event never changes
\* this
C24_FirstEventDecides ==
    [][(dpc = "select" /\ dpc' = "returned") =>
          /\ ContextFirst =>
                (ret'.err.type \in {"TimeoutError", "ErrRequestCanceled"}
                 /\ ret'.results = <<>>)
          /\ FailureFirst => (FetchFailure(ret'.err) /\ ret'.results = <<>>)
          /\ FinishFirst => (ret'.err = NilErr /\ ret'.results = results)]_vars

\* C25: after Do has returned, every fetch goroutine and the goroutine
\* closing done terminate; a goroutine sending its error always finds room in
\* errCh
C25_GoroutinesTerminate ==
    /\ [](\A i \in Tasks : tpc[i] = "send" => ENABLED TaskSendErr(i))
    /\ (Returned ~> (doneClosed /\ \A i \in Tasks : tpc[i] = "exit"))

C25_Witness ==
    /\ Returned
    /\ ret.err.type = "TimeoutError"
    /\ N = 2
    /\ doneClosed
    /\ \A i \in Tasks : tpc[i] = "exit" /\ Failed(i)
    /\ Len(errCh) = 2

\* C26: every fetch goroutine writes results exactly once, at its own index,
\* and leaves the other slots alone; no slot is written twice
C26_OneWriterPerSlot ==
    /\ [](\A s \in Tasks :
            /\ writes[s] <= 1
            /\ writes[s] = (IF tpc[s] \in {"wgdone", "exit"} THEN 1 ELSE 0))
    /\ [][\A i \in Tasks :
            (tpc[i] = "store" /\ tpc'[i] = "wgdone") =>
                /\ writes'[i] = writes[i] + 1
                /\ \A s \in Tasks \ {i} :
                     writes'[s] = writes[s] /\ results'[s] = results[s]]_vars

C26_Witness ==
    /\ N = 2
    /\ \A s \in Tasks : writes[s] = 1 /\ tpc[s] = "exit"
    /\ results[1] # NilResult
    /\ results[2] = NilResult
    /\ Failed(2)

Has(seq, x) == \E k \in DOMAIN seq : seq[k] = x

\* C27: when a fragment fetch of a matched request has failed, the request
\* never takes the success path: nothing stitched is written, stitching is
\* not started, and the request ends with the error handling (OnError or the
\* 500 answer)
C27_NoStitchAfterFailedFetch ==
    (Terminated /\ inbound.fragments > 0 /\ \E i \in Tasks : Failed(i)) =>
        /\ response.body # "stitched"
        /\ ~Has(lifecycle, "Succeeded")
        /\ ~Has(lifecycle, "Stitching")
        /\ lifecycle = <<"Matched", "Fetching", "Failed", "ErrorHandled">>

\* C29: the stitched output does not depend on the order in which the
\* children of a node are substituted; it is the same for every iteration
\* order of the map of child contents
C29_StitchOrderIndependent ==
    stpc = "stitched" =>
        \A ord \in IterationOrders(DOMAIN structure) :
            stitch(structure, resultMap(structure, bodies), ord, 1) = out

\* the positions at which old occurs in s
Occurrences(s, old) ==
    {i \in 1..(Len(s) - Len(old) + 1) : SubSeq(s, i, i + Len(old) - 1) = old}

\* C30: for a parent with one child, the output is the parent body with the
\* first occurrence of the child's marker replaced by the child's stitched
\* content; the bytes after it, further occurrences of the marker included,
\* are kept verbatim
C30_OnlyFirstMarkerReplaced ==
    (stpc = "stitched" /\ DependentStructures(structure, 1) = {2}) =>
        LET self == bodies[1]
            mark == directive(structure[2].replacementID)
            content == stitch(structure, resultMap(structure, bodies), iterOrder, 2)
            occ == Occurrences(self, mark)
        IN IF occ = {} THEN out = self
           ELSE LET first == CHOOSE i \in occ : \A j \in occ : i <= j
                IN out = SubSeq(self, 1, first - 1) \o content
                            \o SubSeq(self, first + Len(mark), Len(self))

C30_Witness ==
    /\ stpc = "stitched"
    /\ Len(structure) = 2
    /\ bodies[1] = directive(<<"body">>) \o <<"X">> \o directive(<<"body">>)
    /\ bodies[2] = <<"X">>
    /\ out = <<"X", "X">> \o directive(<<"body">>)

\* C28: once the route is registered, no step of the handling of a request
\* (matching, building the requestables, mapping the results) changes the
\* Route or a node of its fragment tree
C28_RequestsOnlyReadRoute ==
    [][rtpc # "LoadRoutes" => routes' = routes]_vars

C28_Witness ==
    /\ rtpc = "built"
    /\ matched.route = 1
    /\ built.err = NilErr
    /\ routes[1].Parts = <<<<>>, <<"a">>, <<":", "a">>>>
    /\ Len(routes[1].fragmentsToRequest) > 1

(* ------------------------ properties of the notifier ------------------ *)

\* an Emit has run to its end
Emitted == npc = "idle" /\ emitted # NoEmit

\* the Around handlers that were registered for the emitted name when Emit
\* was called; a handler's number is its rank among all registrations
EmitHandlers ==
    LET subs == Subscriptions(aroundSubscriptions, emitted.name)
    IN {subs[i].id : i \in {j \in DOMAIN subs : subs[j].id <= emitted.at}}

\* what the Around handlers and f logged
AroundMessages == SelectSeq(messages, LAMBDA m : m[1] # "on")

\* C22: Emit runs the 'before' parts of the Around handlers of the name in
\* registration order, then f exactly once, then the 'after' parts in reverse
\* registration order: the first registered handler is the outermost
C22_AroundNestedInRegistrationOrder ==
    Emitted =>
        LET ms == AroundMessages
            n == Cardinality(EmitHandlers)
        IN /\ Len(ms) = 2 * n + 1
           /\ ms[n + 1] = <<"executing", 0>>
           /\ Len(fctx) = 1
           /\ {ms[k][2] : k \in 1..n} = EmitHandlers
           /\ \A k \in 1..n :
                /\ ms[k][1] = "before"
                /\ ms[2 * n + 2 - k] = <<"after", ms[k][2]>>
                /\ \A l \in 1..n : k < l => ms[k][2] < ms[l][2]

C22_Witness ==
    /\ Emitted
    /\ emitted.name = "test"
    /\ messages = << <<"before", 1>>, <<"before", 2>>, <<"before", 3>>,
                     <<"executing", 0>>,
                     <<"after", 3>>, <<"after", 2>>, <<"after", 1>> >>

\* the handler of number h
HandlerOf(h) ==
    LET subs == Subscriptions(aroundSubscriptions, emitted.name)
    IN subs[CHOOSE i \in DOMAIN subs : subs[i].id = h]

\* C23: every Around handler receives the context the handler registered
\* before it passed to its callback (the first one the context of Emit), f
\* receives the context the last handler passed, and every value a handler
\* added is in the context of f
C23_ContextPassedAlongChain ==
    Emitted =>
        /\ Len(fctx) = 1
        /\ \A h \in EmitHandlers :
             LET before == {g \in EmitHandlers : g < h}
             IN /\ h \in DOMAIN received /\ h \in DOMAIN passed
                /\ received[h] =
                     IF before = {} THEN emitted.ctx
                     ELSE passed[CHOOSE g \in before : \A x \in before : x <= g]
                /\ HandlerOf(h).adds => h \in fctx[1]
        /\ fctx[1] =
             IF EmitHandlers = {} THEN emitted.ctx
             ELSE passed[CHOOSE g \in EmitHandlers : \A x \in EmitHandlers : x <= g]
        /\ emitted.ctx \subseteq fctx[1]

C23_Witness ==
    /\ Emitted
    /\ emitted.name = "test"
    /\ emitted.ctx = {0}
    /\ EmitHandlers = {1, 2}
    /\ received = (1 :> {0}) @@ (2 :> {0, 1})
    /\ fctx = <<{0, 1, 2}>>

(* ------------------- further properties of the stitcher --------------- *)

\* the output of stitch for the root when the child m is left out of the
\* substitutions
stitchWithout(m) ==
    LET res == resultMap(structure, bodies)
        kids == DependentStructures(structure, 1)
        childContent == [k \in kids |-> stitch(structure, res, iterOrder, k)]
    IN substitute(structure, bodies[1], Ordered(kids \ {m}, iterOrder), childContent)

\* C31: when the body of the root holds no marker of one of its children,
\* the output is what stitching gives without that child: its content is
\* absent and the rest of the body is as it would be anyway
C31_MissingMarkerSkipsChild ==
    stpc = "stitched" =>
        \A m \in DependentStructures(structure, 1) :
            Occurrences(bodies[1], directive(structure[m].replacementID)) = {} =>
                out = stitchWithout(m)

\* ---- properties of the server's requests ----

\* the values the URL of a fragment request carries under a name
ValuesOf(u, name) ==
    LET hits == SelectSeq(u.RawQuery, LAMBDA p : p.name = name)
    IN [i \in DOMAIN hits |-> hits[i].value]

\* C32: in the fragment request of a matched route, the only value under the
\* name of a route parameter is the inbound path segment, whatever the inbound
\* query string carries under that name
C32_QueryNeverOverridesParameter ==
    rtpc = "queried" =>
        \A name \in DOMAIN matched.parameters :
            ValuesOf(built.url, name) = <<matched.parameters[name]>>

\* C33: with PassThrough set, the answer the target gave to an unmatched
\* request is written to the client with its status and its body, whatever
\* the status is
C33_PassThroughRelaysAnyStatus ==
    (spc = "done" /\ ~inbound.ping /\ inbound.fragments = 0 /\ PassThrough) =>
        /\ Len(upstream) = 1
        /\ upstream[1].kind = "http" =>
               response = [status |-> upstream[1].status, body |-> Body(upstream[1])]

\* a target's answer with status 500 was relayed
C33_Witness ==
    /\ spc = "done"
    /\ PassThrough
    /\ lifecycle = <<"Unmatched", "Passthrough", "Written">>
    /\ Len(upstream) = 1
    /\ upstream[1].kind = "http"
    /\ upstream[1].status = 500
    /\ response = [status |-> 500, body |-> "Something went wrong"]

\* the registered routes the inbound path matches
Matching == {i \in DOMAIN routes : matchParts(routes[i].Parts, reqParts)}

\* C34: a request several routes match is served by the one registered first,
\* with the parameters of that route
C34_FirstRegisteredRouteServes ==
    (rtpc = "matched" /\ Matching # {}) =>
        /\ matched.route \in Matching
        /\ \A i \in Matching : matched.route <= i
        /\ matched.parameters = parametersFor(routes[matched.route].Parts, reqParts)

\* two routes with different parameter names match the path and the first
\* one serves it
C34_Witness ==
    /\ rtpc = "matched"
    /\ Matching = {1, 2}
    /\ routes[1].Parts # routes[2].Parts
    /\ parametersFor(routes[1].Parts, reqParts) # parametersFor(routes[2].Parts, reqParts)
    /\ matched.route = 1

\* ---- properties of the notifier's subscriptions ----

\* the map a call of RemoveOn or RemoveAround works on
RemovedFrom(op, ons, arounds) == IF op = "RemoveOn" THEN ons ELSE arounds

\* C35: when RemoveOn(name, h) or RemoveAround(name, h) returns, the list of
\* name is the one before the call without h, the other handlers in their
\* order; the lists of the other names are the same, and no name has an
\* empty list
C35_RemoveLeavesOthers ==
    [][(removing # NoCall /\ removing' = NoCall) =>
          LET after == RemovedFrom(removing.op, onSubscriptions', aroundSubscriptions')
              before == removing.before
              h == removing.handler
          IN /\ Subscriptions(after, removing.name) =
                    SelectSeq(Subscriptions(before, removing.name),
                              LAMBDA s : Pointer(s) # h)
             /\ \A name \in Names \ {removing.name} :
                    /\ Subscriptions(after, name) = Subscriptions(before, name)
                    /\ name \in DOMAIN after <=> name \in DOMAIN before
             /\ \A name \in DOMAIN after : after[name] # <<>>]_vars

\* C36: Emit reads the subscription maps only while no call that modifies
\* them holds n.mu, so that the lists it calls are lists a finished
\* modification left
C36_EmitExcludesModifications ==
    [][(npc = "idle" /\ npc' = "calling") =>
          /\ ~mu
          /\ \A i \in DOMAIN messages' :
                 \A j \in DOMAIN messages' : messages'[i] = messages'[j] => i = j]_vars

\* ---- properties of Do with the unbuffered error channel ----

\* C37: once Do has returned, every fetch goroutine that was launched comes
\* to its end: none stays at its send on errCh
C37_TasksTerminateAfterReturn ==
    Returned ~> (\A i \in Tasks : tpc[i] = "exit")

\* ---- properties of route validation ----

\* C38: the route LoadRoutes validated has, after Validate, the dynamic parts
\* it was made with, in the same order, and so has every fragment definition
\* of the route
C38_ValidateLeavesPartsAlone ==
    rtpc = "loaded" =>
        LET r == newRoute(entry.path, entry.root, mapOrder)
            after == Validate(r).route
        IN /\ after.dynamicParts = r.dynamicParts
           /\ \A n \in DOMAIN r.RootFragment.def :
                  after.RootFragment.def[n].dynamicParts = r.RootFragment.def[n].dynamicParts

====
